---- MODULE Spec2Model ----
EXTENDS Integers, Sequences, FiniteSets, TLC

\* ---------------------------------------------------------------------
\* Bounds of the model
\* ---------------------------------------------------------------------

\* instances one container creates in a run
MaxInst == 2

\* ---------------------------------------------------------------------
\* Declarations: service definitions and plugin factories
\* ---------------------------------------------------------------------

\* scope argument of getByClass/resolveByClass; "" is the omitted scope
Scopes == {"", "x"}

\* the characters the pattern /[^a-zA-Z0-9-.]/ of Service() does not match
AllowedChars == {"A", "B", "x", "-", "."}

\* identifier.replace(/[^a-zA-Z0-9-.]/, ''): the pattern has no g flag, so the
\* first character outside the class is removed and the rest is kept
RECURSIVE Sanitize(_)
Sanitize(chars) ==
    IF chars = <<>> THEN <<>>
    ELSE IF Head(chars) \in AllowedChars THEN <<Head(chars)>> \o Sanitize(Tail(chars))
    ELSE Tail(chars)

\* the string of a sequence of characters
RECURSIVE Join(_)
Join(chars) == IF chars = <<>> THEN "" ELSE Head(chars) \o Join(Tail(chars))

\* options.identifier of the declaration of the service: as it is stored, or
\* with a character the pattern removes
DeclaredIdentifiers == { <<"A">>, <<"_", "A">> }

\* identifiers of the declared services: service.identifier, the key of
\* ServiceIdentifiers
Identifiers == {Join(Sanitize(d)) : d \in DeclaredIdentifiers}

\* the scopes the callers of the container specification pass
CallScopes == {""}

\* the definitions registered when the container is constructed
InitialServiceRegistry == <<>>

\* the plugin factories of the model, after the shapes the repository has
Factories == {"RetryPlugin", "TagsPlugin", "BootstrapPlugin", "SignalPlugin"}

\* the factories extendPlugins has registered when the container is constructed
InitialPluginArray == <<"BootstrapPlugin", "TagsPlugin", "SignalPlugin">>

\* plugin.onCreate is defined
HasOnCreate(f) ==
    f \in {"RetryPlugin", "DebouncePlugin", "TimerPlugin", "BootstrapPlugin",
           "SignalPlugin", "UserPlugin"}

\* plugin.onDestroy is defined
HasOnDestroy(f) ==
    f \in {"RetryPlugin", "DebouncePlugin", "TimerPlugin", "BootstrapPlugin", "UserPlugin"}

\* the promise of onDestroy settles after a real wait: a plugin of the application
\* whose hook awaits an operation of its own
SlowOnDestroy(f) == f = "UserPlugin"

\* the promise of onCreate settles after a real wait (await inside the hook)
AsyncOnCreate(f) == f = "BootstrapPlugin"

\* ---------------------------------------------------------------------
\* State
\* ---------------------------------------------------------------------

VARIABLES
    PluginArray,    \* registries: ordered global list of plugin factories
    pluginArray,    \* container: plugin objects by index (factory of each)
    pluginSet,      \* container: Map factory -> index (0: absent)
    pluginCounter,  \* container: number of plugin objects added
    services,       \* container: Map key -> {class, instance}, insertion order
    instances,      \* every instance makeService has made: key, class, maker
    hookLog,        \* per instance: onCreate events, in the order they happened
    destroyLog,     \* per instance: onDestroy events of its destroy() call
    destroyAt,      \* per instance: pluginCounter when destroy() was called, -1 before
    tasks,          \* suspended async calls (resolveByClass, instance.destroy)
    lastGot,        \* per key: the instance the latest getByClass or getByName returned
    ret,            \* what the step just taken returned to its caller
    inv,            \* the invokeLinear / invokeParallel call under way
    decls,          \* the wrapped methods of the instance of the wrapped class
    slots,          \* per resilience plugin: the timers array of that instance
    meth,           \* per wrapped method: closure variables, pending timer, log
    since,          \* what has happened since destroy() of that instance
    flights,         \* per single-flight method: closure variables and callers
    signals,        \* signal fields: vault values, dispatched events, writes made
    declared,       \* the identifier Service() was called with, as characters
    registry,       \* the declarations made: definitions, counter, descriptors run
    extended,       \* the factories extendPlugins was called with, in call order
    fields,         \* one instance: the blueprint, its own fields, the arrays they hold
    bus             \* an EventBus and a UnaryBus: listeners, the dispatch under way

cvars == <<PluginArray, pluginArray, pluginSet, pluginCounter, services,
           instances, hookLog, destroyLog, destroyAt, tasks, lastGot, ret>>

\* state outside the container's tables
rvars == <<decls, slots, meth, since>>

\* state of the single-flight wrappers and of the signal fields, and the declaration
dvars == <<declared, registry, extended, fields, bus>>

evars == <<flights, signals, dvars>>

ovars == <<inv, rvars, evars>>

vars == <<cvars, ovars>>

\* no bus whose listeners are followed
NoBus == [listeners |-> <<>>, subscribed |-> 0, cancelled |-> {}, dispatches |-> 0]

\* no instance whose fields are followed
NoFields == [heap |-> <<>>, blueprint |-> <<>>, own |-> <<>>, ops |-> 0, last |-> "none"]

\* ServiceIdentifiers and ServiceRegistry are empty, counter = 0, no call of Service()
NoRegistry == [defs |-> <<>>, counter |-> 0, ran |-> <<>>, calls |-> 0,
               last |-> [identifier |-> "", returned |-> 0]]

\* no instance with signal fields has been created
NoSignals ==
    [vault |-> <<>>, container |-> <<>>, instance |-> <<>>, writes |-> <<>>,
     reads |-> <<>>]

\* a batch call made without a filter
NoFilter == [given |-> FALSE, accepts |-> {}]

\* no invokeLinear / invokeParallel, no container.reset / destroy has been called
NoInvoke == [op |-> "none", snapshot |-> <<>>, pos |-> 0, pending |-> {},
             log |-> <<>>, status |-> "none", filter |-> NoFilter]

\* destroy() of the wrapped instance has not been called
NoSince == [had |-> FALSE, anew |-> FALSE, invoked |-> FALSE]

NoRet == [op |-> "none", inst |-> 0, prev |-> 0, made |-> FALSE, arg |-> <<>>]

\* ---------------------------------------------------------------------
\* Helpers: the services Map and the key of an instance
\* ---------------------------------------------------------------------

\* const key = scope ? `${service.identifier}_${scope}` : service.identifier
Key(id, scope) == IF scope = "" THEN id ELSE id \o "_" \o scope

Keys == {Key(id, s) : id \in Identifiers, s \in Scopes}

\* services.get(key): position of the entry, 0 when there is none
ServiceIndex(svcs, key) ==
    IF \E i \in 1..Len(svcs) : svcs[i].key = key
    THEN CHOOSE i \in 1..Len(svcs) : svcs[i].key = key
    ELSE 0

\* services.set(key, {class, instance}): a Map keeps the position of a key it has
ServiceSet(svcs, key, class, inst) ==
    LET e == [key |-> key, class |-> class, instance |-> inst]
        i == ServiceIndex(svcs, key)
    IN IF i = 0 THEN Append(svcs, e) ELSE [svcs EXCEPT ![i] = e]

\* services.delete(key)
ServiceDelete(svcs, key) == SelectSeq(svcs, LAMBDA e : e.key # key)

\* ---------------------------------------------------------------------
\* Plugins of the container
\* ---------------------------------------------------------------------

\* an autoRegisterNewPlugins without the test of the lengths
AutoRegisteredAlways(PA, counter) ==
    IF counter >= 1 THEN SubSeq(PA, counter, Len(PA)) ELSE <<>>

\* autoRegisterNewPlugins(): the factories its loop hands to addPlugin.
\* The loop starts at pluginCounter - 1 (0-based), the last plugin already added.
AutoRegistered(PA, counter) ==
    IF Len(PA) # counter /\ counter <= Len(PA)
    THEN SubSeq(PA, counter, Len(PA))
    ELSE <<>>

\* autoRegisterNewPlugins() throws: with pluginCounter = 0 its loop starts at
\* i = -1 and addPlugin calls PluginArray[-1], which is undefined
AutoRegisterThrows(PA, counter) == counter = 0 /\ Len(PA) # 0

\* addPlugin for each factory of `added`: pluginSet.set(plugin, index)
PluginSetAfter(ps, arr, added) ==
    [f \in Factories |->
        IF \E k \in 1..Len(added) : added[k] = f
        THEN Len(arr) + (CHOOSE k \in 1..Len(added) :
                            /\ added[k] = f
                            /\ \A m \in 1..Len(added) : added[m] = f => m <= k)
        ELSE ps[f]]

\* the events of one call of plugin.onCreate: the start, and the end at once
\* when the hook has nothing to wait for
StartEvents(f, i, by) ==
    IF AsyncOnCreate(f)
    THEN << [e |-> "cs", i |-> i, by |-> by] >>
    ELSE << [e |-> "cs", i |-> i, by |-> by], [e |-> "ce", i |-> i, by |-> by] >>

\* getByClass: for (i = 0; i < pluginCounter; i++) if (plugin.onCreate) plugin.onCreate(...)
RECURSIVE CreateAll(_, _)
CreateAll(arr, i) ==
    IF i > Len(arr) THEN <<>>
    ELSE (IF HasOnCreate(arr[i]) THEN StartEvents(arr[i], i, "get") ELSE <<>>)
         \o CreateAll(arr, i + 1)

\* mutant of NextOnCreate: the loop takes the last plugin with an onCreate first
NextOnCreateLastFirst(arr, from) ==
    IF \E j \in from..Len(arr) : HasOnCreate(arr[j])
    THEN CHOOSE j \in from..Len(arr) :
            /\ HasOnCreate(arr[j])
            /\ \A m \in from..Len(arr) : HasOnCreate(arr[m]) => m <= j
    ELSE 0

\* resolveByClass: the next plugin of the loop that has an onCreate, 0 at the end
NextOnCreate(arr, from) ==
    IF \E j \in from..Len(arr) : HasOnCreate(arr[j])
    THEN CHOOSE j \in from..Len(arr) :
            /\ HasOnCreate(arr[j])
            /\ \A m \in from..Len(arr) : HasOnCreate(arr[m]) => j <= m
    ELSE 0

\* mutant of PrevOnDestroy: the loop takes the first plugin with an onDestroy first
PrevOnDestroyFirstFirst(arr, from) ==
    IF \E j \in 1..from : HasOnDestroy(arr[j])
    THEN CHOOSE j \in 1..from :
            /\ HasOnDestroy(arr[j])
            /\ \A m \in 1..from : HasOnDestroy(arr[m]) => j <= m
    ELSE 0

\* destroy: the next plugin of the descending loop that has an onDestroy, 0 at the end
PrevOnDestroy(arr, from) ==
    IF \E j \in 1..from : HasOnDestroy(arr[j])
    THEN CHOOSE j \in 1..from :
            /\ HasOnDestroy(arr[j])
            /\ \A m \in 1..from : HasOnDestroy(arr[m]) => m <= j
    ELSE 0

\* a started onCreate whose promise has not settled and that no resolveByClass awaits
PendingCreate(x, i) ==
    /\ \E k \in 1..Len(hookLog[x]) : hookLog[x][k].e = "cs" /\ hookLog[x][k].i = i
    /\ ~ \E k \in 1..Len(hookLog[x]) : hookLog[x][k].e = "ce" /\ hookLog[x][k].i = i

Awaited(x, i) ==
    \E t \in tasks : t.op = "resolve" /\ t.inst = x /\ t.i = i

\* ---------------------------------------------------------------------
\* Retry, debounce and timer plugins: the wrapped methods of one instance
\* ---------------------------------------------------------------------

\* @retry(next, {interval: 100, shots: 3}): the other options at their defaults
RetryDecl ==
    [kind |-> "retry", interval |-> 100, shots |-> 3, max |-> 32000,
     curve |-> "linear", manual |-> FALSE]

\* @debounce(next, {ms: 100})
DebounceDecl ==
    [kind |-> "debounce", interval |-> 100, shots |-> 0, max |-> 0,
     curve |-> "", manual |-> FALSE]

\* @timer(next, {interval: 1000, shots, startManually})
TimerDecl(shots, manual) ==
    [kind |-> "timer", interval |-> 1000, shots |-> shots, max |-> 0,
     curve |-> "", manual |-> manual]

\* the wrapped methods a service class declares, in the order of its registry entry
WrappedClasses ==
    { <<RetryDecl>>,
      <<[RetryDecl EXCEPT !.shots = 2], [RetryDecl EXCEPT !.shots = 2]>>,
      <<DebounceDecl, DebounceDecl>>,
      <<TimerDecl(0, FALSE)>>,
      <<TimerDecl(2, TRUE), TimerDecl(2, TRUE)>>,
      <<TimerDecl(2, TRUE), TimerDecl(2, FALSE)>>,
      <<[RetryDecl EXCEPT !.curve = "log", !.max = 300, !.shots = 5]>> }

\* the plugin that wraps the methods of a kind
KindOfPlugin(f) ==
    CASE f = "RetryPlugin" -> "retry"
      [] f = "DebouncePlugin" -> "debounce"
      [] f = "TimerPlugin" -> "timer"
      [] OTHER -> "none"

\* const timerMap = new Map(): no timers array before onCreate
NoSlots == [k \in {"retry", "debounce", "timer"} |-> <<>>]

\* let counter = 1; let delay = interval; let running = false; `last` is what the
\* wrapped timer function returned the last time it was invoked
MethodInit(d) ==
    [running |-> FALSE, counter |-> 1, delay |-> d.interval, inflight |-> 0,
     timer |-> 0, tick |-> 0, elapsed |-> 0, args |-> 0, calls |-> 0, log |-> <<>>,
     last |-> "none"]

\* const index = timers.length, read while onCreate walks the definitions: only
\* a timer that starts at once has put something into the array by then
IndexOf(ds, m) ==
    IF ds[m].kind = "timer"
    THEN Cardinality({k \in 1..(m - 1) : ds[k].kind = "timer" /\ ~ ds[k].manual})
    ELSE 0

\* timers[index]; 0 stands for undefined
SlotGet(arr, index) == IF index + 1 <= Len(arr) THEN arr[index + 1] ELSE 0

\* timers[index] = v: an assignment past the end lengthens the array
SlotPut(arr, index, v) ==
    [k \in 1..(IF Len(arr) > index + 1 THEN Len(arr) ELSE index + 1) |->
        IF k = index + 1 THEN v ELSE IF k <= Len(arr) THEN arr[k] ELSE 0]

\* one entry of the log of a wrapped method
Ev(e, n, after) == [e |-> e, n |-> n, after |-> after]

\* how often the function under the wrapper of a log has been invoked
Invocations(log) == Cardinality({k \in 1..Len(log) : log[k].e \in {"attempt", "invoke"}})

\* timers[index] = v for method m. The handle of a timer is the number of the
\* method that set it: a method has at most one timer pending.
SetSlot(S, ds, m, v) ==
    [S EXCEPT !.slots[ds[m].kind] = SlotPut(@, IndexOf(ds, m), v)]

\* clearTimeout(h)
ClearTimeout(S, h) == IF h = 0 THEN S ELSE [S EXCEPT !.meth[h].timer = 0]

\* retry: callee(acc, rej) invokes the wrapped function
RetryCallee(S, m, after) ==
    [S EXCEPT !.meth[m].inflight = @ + 1,
              !.meth[m].log = Append(@, Ev("attempt", Invocations(@) + 1, after))]

\* mutant of RetryWrapper: no `if (!timers || running) return`
RetryWrapperUnguarded(S, ds, m) ==
    RetryCallee(SetSlot([S EXCEPT !.meth[m].calls = @ + 1,
                                  !.meth[m].running = TRUE,
                                  !.meth[m].log = Append(@, Ev("call", 0, 0))],
                        ds, m, 0),
                m, 0)

\* retry: replacementFunction(...args)
RetryWrapper(S, ds, m) ==
    IF S.meth[m].running
    THEN [S EXCEPT !.meth[m].calls = @ + 1, !.meth[m].log = Append(@, Ev("drop", 0, 0))]
    ELSE RetryCallee(SetSlot([S EXCEPT !.meth[m].calls = @ + 1,
                                       !.meth[m].running = TRUE,
                                       !.meth[m].log = Append(@, Ev("call", 0, 0))],
                             ds, m, 0),
                     m, 0)

\* retry: .then((result) => ...) of the attempt in flight
RetryThen(S, ds, m) ==
    SetSlot([S EXCEPT !.meth[m].inflight = @ - 1,
                      !.meth[m].running = FALSE,
                      !.meth[m].log = Append(@, Ev("resolve", Invocations(@), 0))],
            ds, m, 0)

\* retry: delay = Math.min(delay * 2, maximumDelay) on the 'log' curve
NextDelay(d, delay) ==
    IF d.curve = "log"
    THEN (IF delay * 2 < d.max THEN delay * 2 ELSE d.max)
    ELSE delay

\* retry: .catch((e) => ...) of the attempt in flight
RetryCatch(S, ds, m) ==
    IF ds[m].shots # 0 /\ S.meth[m].counter >= ds[m].shots
    THEN SetSlot([S EXCEPT !.meth[m].inflight = @ - 1,
                           !.meth[m].running = FALSE,
                           !.meth[m].log = Append(@, Ev("reject", Invocations(@), 0))],
                 ds, m, 0)
    ELSE SetSlot([S EXCEPT !.meth[m].inflight = @ - 1,
                           !.meth[m].delay = NextDelay(ds[m], @),
                           !.meth[m].timer = NextDelay(ds[m], S.meth[m].delay),
                           !.meth[m].counter = @ + 1],
                 ds, m, m)

\* retry: the callback of setTimeout(() => callee(acc, rej), delay)
RetryTimeout(S, m) ==
    RetryCallee([S EXCEPT !.meth[m].timer = 0], m, S.meth[m].timer)

\* debounce: replacementFunction(...args); the arguments of a call are its number
DebounceWrapper(S, ds, m) ==
    LET T == ClearTimeout(S, SlotGet(S.slots["debounce"], IndexOf(ds, m)))
    IN SetSlot([T EXCEPT !.meth[m].calls = @ + 1,
                         !.meth[m].timer = ds[m].interval,
                         !.meth[m].args = S.meth[m].calls + 1,
                         !.meth[m].log = Append(@, Ev("call", S.meth[m].calls + 1, 0))],
               ds, m, m)

\* debounce: the callback of setTimeout, proxyFunction.apply(instance, args)
DebounceTimeout(S, ds, m) ==
    SetSlot([S EXCEPT !.meth[m].log = Append(@, Ev("invoke", S.meth[m].args,
                                                   S.meth[m].timer)),
                      !.meth[m].timer = 0],
            ds, m, 0)

\* a timerFunction that tests counter < shots: one invocation too many
TimerFunctionOneMore(S, ds, m, elapsed, counter, result) ==
    LET T == [S EXCEPT !.meth[m].log = Append(@, Ev("invoke", counter, elapsed)),
                       !.meth[m].last = result]
    IN IF result = "false"
       THEN SetSlot([T EXCEPT !.meth[m].running = FALSE], ds, m, 0)
       ELSE IF ds[m].shots = 0 \/ counter < ds[m].shots
            THEN SetSlot([T EXCEPT !.meth[m].running = TRUE,
                                   !.meth[m].timer = ds[m].interval,
                                   !.meth[m].elapsed = elapsed + ds[m].interval,
                                   !.meth[m].tick = counter + 1],
                         ds, m, m)
            ELSE SetSlot([T EXCEPT !.meth[m].running = FALSE], ds, m, 0)

\* timer: timerFunction(elapsed, counter); result is what the wrapped function returned
TimerFunction(S, ds, m, elapsed, counter, result) ==
    LET T == [S EXCEPT !.meth[m].log = Append(@, Ev("invoke", counter, elapsed)),
                       !.meth[m].last = result]
    IN IF result = "false"
       THEN SetSlot([T EXCEPT !.meth[m].running = FALSE], ds, m, 0)
       ELSE IF ds[m].shots = 0 \/ counter < ds[m].shots - 1
            THEN SetSlot([T EXCEPT !.meth[m].running = TRUE,
                                   !.meth[m].timer = ds[m].interval,
                                   !.meth[m].elapsed = elapsed + ds[m].interval,
                                   !.meth[m].tick = counter + 1],
                         ds, m, m)
            ELSE SetSlot([T EXCEPT !.meth[m].running = FALSE], ds, m, 0)

\* a starter without `if (running) return`
TimerStarterUnguarded(S, ds, m, result) ==
    TimerFunction([S EXCEPT !.meth[m].calls = @ + 1,
                            !.meth[m].log = Append(@, Ev("call", 0, 0))],
                  ds, m, 0, 0, result)

\* timer: starter()
TimerStarter(S, ds, m, result) ==
    IF S.meth[m].running
    THEN [S EXCEPT !.meth[m].calls = @ + 1, !.meth[m].log = Append(@, Ev("drop", 0, 0))]
    ELSE TimerFunction([S EXCEPT !.meth[m].calls = @ + 1,
                                 !.meth[m].log = Append(@, Ev("call", 0, 0))],
                       ds, m, 0, 0, result)

\* timer: the callback of setTimeout(() => timerFunction(elapsed + interval, counter + 1))
TimerTimeout(S, ds, m, result) ==
    TimerFunction([S EXCEPT !.meth[m].timer = 0], ds, m,
                  S.meth[m].elapsed, S.meth[m].tick, result)

\* timers.forEach(clearTimeout) from position k on
RECURSIVE ClearAll(_, _, _)
ClearAll(S, arr, k) ==
    IF k > Len(arr) THEN S ELSE ClearAll(ClearTimeout(S, arr[k]), arr, k + 1)

\* plugin.onDestroy(target, instance) of factory f:
\* timers.forEach(clearTimeout); timers.splice(0, timers.length)
PluginOnDestroy(S, f) ==
    IF KindOfPlugin(f) = "none"
    THEN S
    ELSE [ClearAll(S, S.slots[KindOfPlugin(f)], 1) EXCEPT !.slots[KindOfPlugin(f)] = <<>>]

\* onCreate of the timer plugin: if (!startManually) timerFunction()
RECURSIVE OnCreateTimers(_, _, _, _)
OnCreateTimers(S, ds, m, results) ==
    IF m > Len(ds) THEN S
    ELSE OnCreateTimers(IF ds[m].kind = "timer" /\ ~ ds[m].manual
                        THEN TimerFunction(S, ds, m, 0, 0, results[m])
                        ELSE S,
                        ds, m + 1, results)

\* ---------------------------------------------------------------------
\* Container(): the state when the constructor returns
\* ---------------------------------------------------------------------

\* ServiceRegistry.forEach((item) => getByClass(item)) of the constructor
RECURSIVE InitialServices(_)
InitialServices(n) ==
    IF n = 0 THEN <<>>
    ELSE Append(InitialServices(n - 1),
                [key |-> InitialServiceRegistry[n],
                 class |-> InitialServiceRegistry[n],
                 instance |-> n])

InitContainer ==
    /\ PluginArray = InitialPluginArray
    /\ pluginArray = InitialPluginArray
    /\ pluginSet = PluginSetAfter([f \in Factories |-> 0], <<>>, InitialPluginArray)
    /\ pluginCounter = Len(InitialPluginArray)
    /\ services = InitialServices(Len(InitialServiceRegistry))
    /\ instances = [n \in 1..Len(InitialServiceRegistry) |->
                        [key |-> InitialServiceRegistry[n],
                         class |-> InitialServiceRegistry[n],
                         via |-> "get"]]
    /\ hookLog = [n \in 1..Len(InitialServiceRegistry) |-> CreateAll(InitialPluginArray, 1)]
    /\ destroyLog = [n \in 1..Len(InitialServiceRegistry) |-> <<>>]
    /\ destroyAt = [n \in 1..Len(InitialServiceRegistry) |-> -1]
    /\ tasks = {}
    /\ lastGot = [k \in Keys |-> 0]
    /\ ret = NoRet
    /\ inv = NoInvoke
    /\ decls = <<>>
    /\ slots = NoSlots
    /\ meth = <<>>
    /\ since = NoSince
    /\ flights = <<>>
    /\ signals = NoSignals
    /\ declared \in DeclaredIdentifiers
    /\ registry = NoRegistry
    /\ extended = <<>>
    /\ fields = NoFields
    /\ bus = NoBus

\* ---------------------------------------------------------------------
\* Operations of the container
\* ---------------------------------------------------------------------

\* a mutant of PluginRegistryHas: the registry never remembers a factory
PluginRegistryHasNever(array, f) == FALSE

\* PluginRegistry.has(plugin): PluginRegistry is private to the module and
\* extendPlugins adds to it exactly when it pushes onto PluginArray
PluginRegistryHas(array, f) == \E k \in 1..Len(array) : array[k] = f

\* PluginArray after extendPlugins(plugin)
Extended(array, f) ==
    IF PluginRegistryHas(array, f) THEN array ELSE Append(array, f)

\* registries.extendPlugins(plugin), called after the container was constructed,
\* with a factory not yet registered (with a registered one the call returns
\* at once and no state changes)
ExtendPlugins(f) ==
    /\ UNCHANGED ovars
    /\ ~ PluginRegistryHas(PluginArray, f)
    /\ PluginArray' = Extended(PluginArray, f)
    /\ ret' = NoRet
    /\ UNCHANGED <<pluginArray, pluginSet, pluginCounter, services, instances,
                   hookLog, destroyLog, destroyAt, tasks, lastGot>>

\* pluginSet.has(plugin)
PluginSetHas(ps, f) == ps[f] # 0

\* container.registerPlugin(plugin): nothing when the factory is in pluginSet;
\* else addPlugin, then onCreate for every entry of services. `ret.prev` is the
\* index of the plugin object the call added, 0 when it added none.
RegisterPlugin(f) ==
    /\ UNCHANGED ovars
    /\ IF PluginSetHas(pluginSet, f)
       THEN /\ ret' = [op |-> "register", inst |-> 0, prev |-> 0, made |-> FALSE, arg |-> <<>>]
            /\ UNCHANGED <<pluginArray, pluginSet, pluginCounter, hookLog>>
       ELSE /\ pluginArray' = Append(pluginArray, f)
            /\ pluginSet' = [pluginSet EXCEPT ![f] = pluginCounter + 1]
            /\ pluginCounter' = pluginCounter + 1
            /\ hookLog' = [x \in 1..Len(instances) |->
                             IF /\ HasOnCreate(f)
                                /\ \E k \in 1..Len(services) : services[k].instance = x
                             THEN hookLog[x] \o StartEvents(f, pluginCounter + 1, "register")
                             ELSE hookLog[x]]
            /\ ret' = [op |-> "register", inst |-> 0, prev |-> pluginCounter + 1,
                       made |-> FALSE, arg |-> <<>>]
    /\ UNCHANGED <<PluginArray, services, instances, destroyLog, destroyAt, tasks, lastGot>>

\* getByClass(target, scope); op names the call that hands the instance to its caller
GetByClassAs(op, id, scope) ==
    LET key == Key(id, scope)
        at == ServiceIndex(services, key)
        throws == AutoRegisterThrows(PluginArray, pluginCounter)
        added == IF throws THEN <<>> ELSE AutoRegistered(PluginArray, pluginCounter)
        arr == pluginArray \o added
        x == Len(instances) + 1
    IN /\ UNCHANGED ovars
       /\ IF at # 0
          THEN /\ ret' = [op |-> op, inst |-> services[at].instance, prev |-> lastGot[key],
                       made |-> FALSE, arg |-> <<id, scope>>]
               /\ lastGot' = [lastGot EXCEPT ![key] = services[at].instance]
               /\ UNCHANGED <<PluginArray, pluginArray, pluginSet, pluginCounter, services,
                              instances, hookLog, destroyLog, destroyAt, tasks>>
          ELSE IF throws
          THEN /\ ret' = [op |-> op, inst |-> 0, prev |-> 0, made |-> FALSE,
                          arg |-> <<id, scope, "TypeError">>]
               /\ UNCHANGED <<PluginArray, pluginArray, pluginSet, pluginCounter, services,
                              instances, hookLog, destroyLog, destroyAt, tasks, lastGot>>
          ELSE /\ x <= MaxInst
               /\ pluginArray' = arr
               /\ pluginSet' = PluginSetAfter(pluginSet, pluginArray, added)
               /\ pluginCounter' = pluginCounter + Len(added)
               /\ instances' = Append(instances, [key |-> key, class |-> id, via |-> "get"])
               /\ hookLog' = Append(hookLog, CreateAll(arr, 1))
               /\ destroyLog' = Append(destroyLog, <<>>)
               /\ destroyAt' = Append(destroyAt, -1)
               /\ services' = ServiceSet(services, key, id, x)
               /\ ret' = [op |-> op, inst |-> x, prev |-> lastGot[key], made |-> TRUE,
                              arg |-> <<id, scope>>]
               /\ lastGot' = [lastGot EXCEPT ![key] = x]
               /\ UNCHANGED <<PluginArray, tasks>>

\* getByClass(target, scope)
GetByClass(id, scope) == GetByClassAs("get", id, scope)

\* a message that does not name the identifier
NotRegisteredUnnamed(identifier) == "Service is not registered within the global scope"

\* the message of the error getByName throws
NotRegistered(identifier) ==
    identifier \o ": Service is not registered within the global scope"

\* ServiceIdentifiers.get(identifier): "" stands for undefined
ServiceIdentifiersGet(identifier) ==
    IF identifier = Join(Sanitize(declared)) THEN identifier ELSE ""

\* getByName(identifier, scope): the entry of the key if there is one, else
\* getByClass of the definition registered under the identifier, else it throws
\* (ret.inst = 0)
GetByName(identifier, scope) ==
    LET at == ServiceIndex(services, Key(identifier, scope))
        target == ServiceIdentifiersGet(identifier)
    IN IF at # 0
       THEN /\ ret' = [op |-> "name", inst |-> services[at].instance,
                       prev |-> lastGot[services[at].key], made |-> FALSE,
                       arg |-> <<identifier, scope>>]
            /\ lastGot' = [lastGot EXCEPT ![services[at].key] = services[at].instance]
            /\ UNCHANGED <<PluginArray, pluginArray, pluginSet, pluginCounter, services,
                           instances, hookLog, destroyLog, destroyAt, tasks>>
            /\ UNCHANGED ovars
       ELSE IF target = ""
            THEN /\ ret' = [op |-> "name", inst |-> 0, prev |-> 0, made |-> FALSE,
                            arg |-> <<identifier, scope, NotRegistered(identifier)>>]
                 /\ UNCHANGED <<PluginArray, pluginArray, pluginSet, pluginCounter,
                                services, instances, hookLog, destroyLog, destroyAt,
                                tasks, lastGot>>
                 /\ UNCHANGED ovars
            ELSE GetByClassAs("name", target, scope)

\* getPluginByClass(type): `ret.prev` is the index of the plugin object it
\* returns, 0 when it throws 'Plugin not found.'
GetPluginByClass(f) ==
    /\ ret' = [op |-> "plugin", inst |-> 0, prev |-> pluginSet[f], made |-> FALSE,
               arg |-> <<f>>]
    /\ UNCHANGED <<PluginArray, pluginArray, pluginSet, pluginCounter, services,
                   instances, hookLog, destroyLog, destroyAt, tasks, lastGot>>
    /\ UNCHANGED ovars

\* resolveByClass(target, scope), up to its first await or its return
ResolveByClass(id, scope) ==
    LET key == Key(id, scope)
        at == ServiceIndex(services, key)
        throws == AutoRegisterThrows(PluginArray, pluginCounter)
        added == IF throws THEN <<>> ELSE AutoRegistered(PluginArray, pluginCounter)
        arr == pluginArray \o added
        x == Len(instances) + 1
        j == NextOnCreate(arr, 1)
    IN /\ UNCHANGED ovars
       /\ IF at # 0
          THEN /\ ret' = [op |-> "resolve", inst |-> services[at].instance, prev |-> 0,
                       made |-> FALSE, arg |-> <<>>]
               /\ UNCHANGED <<PluginArray, pluginArray, pluginSet, pluginCounter, services,
                              instances, hookLog, destroyLog, destroyAt, tasks, lastGot>>
          ELSE IF throws
          THEN /\ ret' = [op |-> "resolve", inst |-> 0, prev |-> 0, made |-> FALSE,
                          arg |-> <<"TypeError">>]
               /\ UNCHANGED <<PluginArray, pluginArray, pluginSet, pluginCounter, services,
                              instances, hookLog, destroyLog, destroyAt, tasks, lastGot>>
          ELSE /\ x <= MaxInst
               /\ pluginArray' = arr
               /\ pluginSet' = PluginSetAfter(pluginSet, pluginArray, added)
               /\ pluginCounter' = pluginCounter + Len(added)
               /\ instances' = Append(instances, [key |-> key, class |-> id, via |-> "resolve"])
               /\ destroyLog' = Append(destroyLog, <<>>)
               /\ destroyAt' = Append(destroyAt, -1)
               /\ IF j = 0
                  THEN /\ hookLog' = Append(hookLog, <<>>)
                       /\ services' = ServiceSet(services, key, id, x)
                       /\ ret' = [op |-> "resolve", inst |-> x, prev |-> 0, made |-> TRUE, arg |-> <<>>]
                       /\ UNCHANGED tasks
                  ELSE /\ hookLog' = Append(hookLog, StartEvents(arr[j], j, "resolve"))
                       /\ tasks' = tasks \cup {[op |-> "resolve", inst |-> x, i |-> j]}
                       /\ ret' = NoRet
                       /\ UNCHANGED services
               /\ UNCHANGED <<PluginArray, lastGot>>

\* resolveByClass resumes after `await plugin.onCreate(...)` and runs to the next await
ResolveResume(t) ==
    LET x == t.inst
        settled == IF AsyncOnCreate(pluginArray[t.i])
                   THEN Append(hookLog[x], [e |-> "ce", i |-> t.i, by |-> "resolve"])
                   ELSE hookLog[x]
        j == NextOnCreate(pluginArray, t.i + 1)
    IN /\ UNCHANGED ovars
       /\ t.op = "resolve"
       /\ IF j = 0
          THEN /\ hookLog' = [hookLog EXCEPT ![x] = settled]
               /\ services' = ServiceSet(services, instances[x].key, instances[x].class, x)
               /\ tasks' = tasks \ {t}
               /\ ret' = [op |-> "resolve", inst |-> x, prev |-> 0, made |-> TRUE, arg |-> <<>>]
          ELSE /\ hookLog' = [hookLog EXCEPT
                                ![x] = settled \o StartEvents(pluginArray[j], j, "resolve")]
               /\ tasks' = (tasks \ {t}) \cup {[t EXCEPT !.i = j]}
               /\ ret' = NoRet
               /\ UNCHANGED services
       /\ UNCHANGED <<PluginArray, pluginArray, pluginSet, pluginCounter, instances,
                      destroyLog, destroyAt, lastGot>>

\* the promise of an onCreate nobody awaits (getByClass, registerPlugin) settles
SettleOnCreate(x, i) ==
    /\ UNCHANGED ovars
    /\ PendingCreate(x, i)
    /\ ~ Awaited(x, i)
    /\ hookLog' = [hookLog EXCEPT ![x] = Append(@, [e |-> "ce", i |-> i, by |-> "settle"])]
    /\ ret' = NoRet
    /\ UNCHANGED <<PluginArray, pluginArray, pluginSet, pluginCounter, services,
                   instances, destroyLog, destroyAt, tasks, lastGot>>

\* the service class whose methods are wrapped
WrappedClass == "W"

\* the timers of instance x once the onDestroy of plugin object j has run
\* (j = 0: there is no such hook)
AfterOnDestroy(x, j) ==
    IF j # 0 /\ instances[x].class = WrappedClass
    THEN PluginOnDestroy([slots |-> slots, meth |-> meth], pluginArray[j])
    ELSE [slots |-> slots, meth |-> meth]

\* instance.destroy(), up to its first await or its return. Its caller holds the
\* instance: a getByClass or a resolveByClass has returned it.
Destroy(x) ==
    LET j == PrevOnDestroy(pluginArray, pluginCounter)
        key == instances[x].key
    IN /\ destroyAt[x] = -1
       /\ slots' = AfterOnDestroy(x, j).slots
       /\ meth' = AfterOnDestroy(x, j).meth
       /\ since' = IF instances[x].class = WrappedClass
                 THEN [since EXCEPT !.had = \E m \in 1..Len(meth) : meth[m].timer # 0]
                 ELSE since
       /\ UNCHANGED <<inv, decls, evars>>
       /\ ~ \E t \in tasks : t.op = "resolve" /\ t.inst = x
       /\ destroyAt' = [destroyAt EXCEPT ![x] = pluginCounter]
       /\ lastGot' = [lastGot EXCEPT ![key] = IF @ = x THEN 0 ELSE @]
       /\ IF j = 0
          THEN /\ services' = ServiceDelete(services, key)
               /\ UNCHANGED <<tasks, destroyLog>>
          ELSE /\ tasks' = tasks \cup {[op |-> "destroy", inst |-> x, i |-> j]}
               /\ destroyLog' = [destroyLog EXCEPT ![x] = << [e |-> "ds", i |-> j] >>]
               /\ UNCHANGED services
       /\ ret' = [op |-> "destroy", inst |-> x, prev |-> 0, made |-> FALSE, arg |-> <<>>]
       /\ UNCHANGED <<PluginArray, pluginArray, pluginSet, pluginCounter, instances,
                      hookLog>>

\* destroy resumes after `await plugin.onDestroy(...)` and runs to the next await
DestroyResume(t) ==
    LET x == t.inst
        done == Append(destroyLog[x], [e |-> "de", i |-> t.i])
        j == PrevOnDestroy(pluginArray, t.i - 1)
    IN /\ t.op = "destroy"
       /\ slots' = AfterOnDestroy(x, j).slots
       /\ meth' = AfterOnDestroy(x, j).meth
       /\ UNCHANGED <<inv, decls, since, evars>>
       /\ IF j = 0
          THEN /\ services' = ServiceDelete(services, instances[x].key)
               /\ tasks' = tasks \ {t}
               /\ destroyLog' = [destroyLog EXCEPT ![x] = done]
          ELSE /\ tasks' = (tasks \ {t}) \cup {[t EXCEPT !.i = j]}
               /\ destroyLog' = [destroyLog EXCEPT
                                   ![x] = Append(done, [e |-> "ds", i |-> j])]
               /\ UNCHANGED services
       /\ ret' = NoRet
       /\ UNCHANGED <<PluginArray, pluginArray, pluginSet, pluginCounter, instances,
                      hookLog, destroyAt, lastGot>>

Next ==
    \/ \E f \in Factories : ExtendPlugins(f)
    \/ \E f \in Factories : RegisterPlugin(f)
    \/ \E id \in Identifiers, s \in CallScopes : GetByClass(id, s)
    \/ \E s \in CallScopes : GetByName(Join(declared), s)
    \/ \E id \in Identifiers, s \in CallScopes : ResolveByClass(id, s)
    \/ \E t \in tasks : ResolveResume(t)
    \/ \E x \in 1..Len(instances), i \in 1..pluginCounter : SettleOnCreate(x, i)
    \/ \E x \in 1..Len(instances) : Destroy(x)
    \/ \E t \in tasks : DestroyResume(t)

Init == InitContainer

Spec == Init /\ [][Next]_vars

\* ---------------------------------------------------------------------
\* Properties of resolution and of the plugin pipeline
\* ---------------------------------------------------------------------

Created == 1..Len(instances)

\* the onCreate of plugin object i has completed for instance x
CreateDone(x, i) ==
    \E k \in 1..Len(hookLog[x]) : hookLog[x][k].e = "ce" /\ hookLog[x][k].i = i

\* the onCreate of plugin object i has been started for instance x
CreateStarted(x, i) ==
    \E k \in 1..Len(hookLog[x]) : hookLog[x][k].e = "cs" /\ hookLog[x][k].i = i

\* the onCreate of plugin object i has completed for x before position b of its log
CreateDoneBefore(x, i, b) ==
    \E c \in 1..(b - 1) : hookLog[x][c].e = "ce" /\ hookLog[x][c].i = i

\* the destroy() call on instance x has run to its end
DestroyDone(x) ==
    destroyAt[x] >= 0 /\ ~ \E t \in tasks : t.op = "destroy" /\ t.inst = x

\* C1: getByClass calls for one key with no destroy of the returned instance in
\* between return the identical instance, and after each call the instance table
\* holds exactly one entry for the key (the returned instance).
C1_GetByClassIdempotent ==
    ret.op = "get" =>
        /\ ret.prev \in {0, ret.inst}
        /\ Cardinality({k \in 1..Len(services) :
                            services[k].key = instances[ret.inst].key}) = 1
        /\ \E k \in 1..Len(services) : services[k].instance = ret.inst

\* C2: under every interleaving at most one instance exists per (definition,
\* scope): a resolveByClass suspended in onCreate and a second resolveByClass or
\* getByClass for the same key never make two instances for it.
C2_OneInstancePerKey ==
    \A x, y \in Created :
        (/\ instances[x].key = instances[y].key
         /\ destroyAt[x] = -1
         /\ destroyAt[y] = -1) => x = y

\* C3: the onCreate hooks of one instance are started in registration order,
\* all plugins of the container are started when the instance is created, and
\* resolveByClass starts a hook only after the hooks before it have completed.
C3_OnCreateInRegistrationOrder ==
    /\ \A x \in Created :
        \A a, b \in 1..Len(hookLog[x]) :
            (a < b /\ hookLog[x][a].e = "cs" /\ hookLog[x][b].e = "cs") =>
                /\ hookLog[x][a].i < hookLog[x][b].i
                /\ hookLog[x][b].by = "resolve" => CreateDoneBefore(x, hookLog[x][a].i, b)
    /\ ret.made =>
        \A i \in 1..pluginCounter :
            HasOnCreate(pluginArray[i]) => CreateStarted(ret.inst, i)

\* C3 is reached: a resolveByClass has created an instance and run two hooks for it
C3_Witness ==
    /\ ret.op = "resolve" /\ ret.made
    /\ Cardinality({k \in 1..Len(hookLog[ret.inst]) :
                        hookLog[ret.inst][k].e = "cs"}) >= 2

C5_ResolveAwaitsOnCreate ==
    ret.op = "resolve" =>
        \A i \in 1..pluginCounter :
            HasOnCreate(pluginArray[i]) => CreateDone(ret.inst, i)


\* instance x has been handed to its caller and destroy() was not called on it
Live(x) ==
    /\ destroyAt[x] = -1
    /\ ~ \E t \in tasks : t.op = "resolve" /\ t.inst = x

\* how often the onCreate of plugin object i has been started for instance x
CreateStarts(x, i) ==
    Cardinality({k \in 1..Len(hookLog[x]) : hookLog[x][k].e = "cs" /\ hookLog[x][k].i = i})

\* C18: when registerPlugin(F) returns having added F, the onCreate of the new
\* plugin has been called exactly once for every live instance; an instance
\* created later has the onCreate of every plugin object of the container called
\* once, in the order of their indices, so the new plugin after all earlier ones;
\* and registerPlugin adds no plugin object for a factory the container already
\* has and changes nothing else in that case.
C18_RegisterPluginOnRunningContainer ==
    /\ [](/\ (ret.op = "register" /\ ret.prev # 0 /\ HasOnCreate(pluginArray[ret.prev])) =>
               \A x \in Created : Live(x) => CreateStarts(x, ret.prev) = 1
          /\ ret.made =>
               /\ \A i \in 1..pluginCounter :
                     HasOnCreate(pluginArray[i]) => CreateStarts(ret.inst, i) = 1
               /\ \A a, b \in 1..Len(hookLog[ret.inst]) :
                     (/\ a < b
                      /\ hookLog[ret.inst][a].e = "cs"
                      /\ hookLog[ret.inst][b].e = "cs") =>
                         hookLog[ret.inst][a].i < hookLog[ret.inst][b].i)
    /\ [][ret'.op = "register" =>
            IF ret'.prev = 0
            THEN UNCHANGED <<pluginArray, pluginSet, pluginCounter, hookLog, services>>
            ELSE /\ pluginArray' = Append(pluginArray, pluginArray'[ret'.prev])
                 /\ \A k \in 1..pluginCounter : pluginArray[k] # pluginArray'[ret'.prev]]_vars


\* C19: no factory has been called twice for the container (the plugin objects
\* of the container come from pairwise different factories), and for no
\* instance has the onCreate of plugins of one factory been started twice.
C19_OnePluginObjectPerFactory ==
    /\ \A i, j \in 1..pluginCounter :
          pluginArray[i] = pluginArray[j] => i = j
    /\ \A x \in Created :
          \A a, b \in 1..Len(hookLog[x]) :
             (/\ hookLog[x][a].e = "cs"
              /\ hookLog[x][b].e = "cs"
              /\ pluginArray[hookLog[x][a].i] = pluginArray[hookLog[x][b].i]) => a = b


\* C20: getByName with the identifier a service was declared with does what
\* getByClass with the definition and the same scope does in that state: it
\* returns the instance of the key when there is one, and otherwise creates the
\* instance, runs the onCreate hooks, stores it under the key and returns it.
C20_GetByNameAsGetByClass ==
    [][ret'.op = "name" =>
          \E s \in CallScopes : GetByClassAs("name", Join(Sanitize(declared)), s)]_vars


\* ---------------------------------------------------------------------
\* Lookups by name and by plugin factory
\* ---------------------------------------------------------------------

\* the identifiers callers pass to getByName: the declared one as it was written
\* and as it is stored, one that nothing declares, and one that reads like the
\* key of a scoped instance
LookupIdentifiers ==
    Identifiers \cup {Join(d) : d \in DeclaredIdentifiers} \cup {"B", Key("A", "x")}

NextLookup ==
    \/ \E id \in LookupIdentifiers, s \in Scopes : GetByName(id, s)
    \/ \E f \in Factories : GetPluginByClass(f)
    \/ \E id \in Identifiers, s \in Scopes : GetByClass(id, s)
    \/ \E f \in Factories : ExtendPlugins(f)
    \/ \E f \in Factories : RegisterPlugin(f)
    \/ \E x \in 1..Len(instances) : Destroy(x)
    \/ \E t \in tasks : DestroyResume(t)

SpecLookup == InitContainer /\ [][NextLookup]_vars

\* the parts of the container a lookup that fails must leave alone
LookupFrame == <<services, instances, pluginArray, pluginSet, pluginCounter, hookLog,
                 destroyLog, destroyAt, tasks>>

InTable(svcs, x) == \E k \in 1..Len(svcs) : svcs[k].instance = x

\* the onDestroy of each of the first `upto` plugin objects that has one is
\* logged as completed
DestroyEnded(log, arr, upto) ==
    \A j \in 1..upto : HasOnDestroy(arr[j]) =>
        \E k \in 1..Len(log) : log[k].e = "de" /\ log[k].i = j

\* C24: instance.destroy() takes the instance out of the table only after the
\* onDestroy of every plugin the container had when destroy was called has
\* completed; an instance leaves the table by a delete only when its own destroy
\* has run to its end; when a destroy ends the table has no entry for the key,
\* so that a getByClass for the key after it never returns the destroyed
\* instance and makes a new one with every plugin's onCreate started once.
C24_DestroyRemovesOnlyItself ==
    /\ [][\A x \in 1..Len(instances) :
            (/\ InTable(services, x)
             /\ ~ InTable(services', x)
             /\ Len(services') < Len(services)) =>
                /\ destroyAt'[x] >= 0
                /\ ~ \E t \in tasks' : t.op = "destroy" /\ t.inst = x
                /\ DestroyEnded(destroyLog'[x], pluginArray', destroyAt'[x])]_vars
    /\ [][\A x \in 1..Len(instances) :
            (~ DestroyDone(x) /\ destroyAt'[x] >= 0
                /\ ~ \E t \in tasks' : t.op = "destroy" /\ t.inst = x) =>
                ServiceIndex(services', instances[x].key) = 0]_vars
    /\ [](ret.op = "get" =>
            /\ ~ DestroyDone(ret.inst)
            /\ ret.made => \A i \in 1..pluginCounter :
                              HasOnCreate(pluginArray[i]) => CreateStarts(ret.inst, i) = 1)


\* ---------------------------------------------------------------------
\* invokeLinear and invokeParallel
\* ---------------------------------------------------------------------

\* most services in the table when a batch call is made
MaxLive == 4

\* the service definitions of the batch runs and the scopes they are resolved in
InvokeScoped == {<<"A", "">>, <<"B", "">>, <<"C", "">>, <<"D", "">>, <<"A", "x">>}

\* options.order of a definition; D declares none
DeclaredOrder(c) ==
    CASE c = "A" -> 5
      [] c = "B" -> -1000
      [] c = "C" -> 0
      [] OTHER -> 0

\* name in instance && typeof instance[name] === 'function'; D has no method m
DefinesM(c) == c # "D"

\* what a call of m does: it hands back a promise, or it throws at once
CallOutcomes == {"promise", "throw"}

\* how a pending promise of m settles
SettleOutcomes == {"resolve", "reject"}

\* the tables getByClass leaves when the services are first fetched in some order
InvokeTables ==
    LET picks == UNION {[1..n -> InvokeScoped] : n \in 0..MaxLive}
    IN {[k \in 1..Len(p) |-> [key |-> Key(p[k][1], p[k][2]), class |-> p[k][1],
                              instance |-> k]] :
            p \in {q \in picks : \A a, b \in 1..Len(q) : a # b => q[a] # q[b]}}

\* a.class.order ?? 0 is below b's, or equal and a comes first in the array
SortedBefore(arr, a, b) ==
    \/ DeclaredOrder(arr[a].class) < DeclaredOrder(arr[b].class)
    \/ DeclaredOrder(arr[a].class) = DeclaredOrder(arr[b].class) /\ a < b

\* the array left as it is
Unsorted(arr) == arr

\* Array.from(services.values()).sort((a, b) => a.class.order - b.class.order):
\* Array.prototype.sort is stable
SortByOrder(arr) ==
    [k \in 1..Len(arr) |->
        arr[CHOOSE a \in 1..Len(arr) :
                Cardinality({b \in 1..Len(arr) : SortedBefore(arr, b, a)}) = k - 1]]

\* the next entry at or after position from whose instance defines m, 0 when none
NextTarget(arr, from) ==
    IF \E j \in from..Len(arr) : DefinesM(arr[j].class)
    THEN CHOOSE j \in from..Len(arr) :
            /\ DefinesM(arr[j].class)
            /\ \A k \in from..(j - 1) : ~ DefinesM(arr[k].class)
    ELSE 0

InvokeEvent(e, x) == [e |-> e, inst |-> x]

\* a loop that catches what a call throws and goes on
LinearFromSwallows(r, from, call) ==
    LET j == NextTarget(r.snapshot, from)
    IN IF j = 0
       THEN [r EXCEPT !.pos = 0, !.status = "resolved"]
       ELSE IF call = "throw"
            THEN [r EXCEPT !.pos = j,
                           !.log = @ \o <<InvokeEvent("start", r.snapshot[j].instance),
                                          InvokeEvent("throw", r.snapshot[j].instance)>>]
            ELSE [r EXCEPT !.pos = j,
                           !.log = Append(@, InvokeEvent("start", r.snapshot[j].instance))]

\* the loop of invokeLinear from position from up to its next await
LinearFrom(r, from, call) ==
    LET j == NextTarget(r.snapshot, from)
    IN IF j = 0
       THEN [r EXCEPT !.pos = 0, !.status = "resolved"]
       ELSE IF call = "throw"
            THEN [r EXCEPT !.pos = j, !.status = "rejected",
                           !.log = @ \o <<InvokeEvent("start", r.snapshot[j].instance),
                                          InvokeEvent("throw", r.snapshot[j].instance)>>]
            ELSE [r EXCEPT !.pos = j,
                           !.log = Append(@, InvokeEvent("start", r.snapshot[j].instance))]

InitInvoke ==
    /\ PluginArray = InitialPluginArray
    /\ pluginArray = InitialPluginArray
    /\ pluginSet = PluginSetAfter([f \in Factories |-> 0], <<>>, InitialPluginArray)
    /\ pluginCounter = Len(InitialPluginArray)
    /\ services \in InvokeTables
    /\ instances = [n \in 1..Len(services) |->
                        [key |-> services[n].key, class |-> services[n].class, via |-> "get"]]
    /\ hookLog = [n \in 1..Len(services) |-> CreateAll(InitialPluginArray, 1)]
    /\ destroyLog = [n \in 1..Len(services) |-> <<>>]
    /\ destroyAt = [n \in 1..Len(services) |-> -1]
    /\ tasks = {}
    /\ lastGot = [k \in Keys |-> 0]
    /\ ret = NoRet
    /\ inv = NoInvoke
    /\ decls = <<>>
    /\ slots = NoSlots
    /\ meth = <<>>
    /\ since = NoSince
    /\ flights = <<>>
    /\ signals = NoSignals
    /\ declared = <<"A">>
    /\ registry = NoRegistry
    /\ extended = <<>>
    /\ fields = NoFields
    /\ bus = NoBus

\* container.invokeLinear('m'), up to its first await
InvokeLinear(call) ==
    /\ inv.op = "none"
    /\ inv' = LinearFrom([NoInvoke EXCEPT !.op = "linear", !.status = "running",
                                          !.snapshot = SortByOrder(services)], 1, call)
    /\ UNCHANGED <<cvars, rvars, evars>>

\* the promise invokeLinear awaits settles and its loop goes on
LinearResume(out, call) ==
    /\ inv.op = "linear"
    /\ inv.status = "running"
    /\ LET x == inv.snapshot[inv.pos].instance
           r == [inv EXCEPT !.log = Append(@, InvokeEvent(out, x))]
       IN inv' = IF out = "reject"
                 THEN [r EXCEPT !.status = "rejected"]
                 ELSE LinearFrom(r, inv.pos + 1, call)
    /\ UNCHANGED <<cvars, rvars, evars>>

\* container.invokeParallel('m'): the map over the table, up to the await of
\* Promise.all; throwAt is the target whose call throws (0: none does)
InvokeParallel(throwAt) ==
    LET targets == SelectSeq(services, LAMBDA e : DefinesM(e.class))
        n == IF throwAt = 0 THEN Len(targets) ELSE throwAt
        starts == [k \in 1..n |-> InvokeEvent("start", targets[k].instance)]
    IN /\ inv.op = "none"
       /\ throwAt <= Len(targets)
       /\ inv' = [op |-> "parallel",
                  snapshot |-> services,
                  pos |-> 0,
                  pending |-> {targets[k].instance : k \in 1..n}
                                \ (IF throwAt = 0 THEN {} ELSE {targets[n].instance}),
                  log |-> IF throwAt = 0 THEN starts
                          ELSE Append(starts, InvokeEvent("throw", targets[n].instance)),
                  status |-> IF throwAt # 0 THEN "rejected"
                             ELSE IF n = 0 THEN "resolved" ELSE "running",
                  filter |-> NoFilter]
       /\ UNCHANGED <<cvars, rvars, evars>>

\* one promise handed to Promise.all settles
ParallelSettle(x, out) ==
    /\ inv.op = "parallel"
    /\ x \in inv.pending
    /\ inv' = [inv EXCEPT !.pending = @ \ {x},
                          !.log = Append(@, InvokeEvent(out, x)),
                          !.status = IF @ # "running" THEN @
                                     ELSE IF out = "reject" THEN "rejected"
                                     ELSE IF inv.pending = {x} THEN "resolved"
                                     ELSE "running"]
    /\ UNCHANGED <<cvars, rvars, evars>>

NextInvoke ==
    \/ \E call \in CallOutcomes : InvokeLinear(call)
    \/ \E out \in SettleOutcomes, call \in CallOutcomes : LinearResume(out, call)
    \/ \E throwAt \in 0..MaxLive : InvokeParallel(throwAt)
    \/ \E x \in 1..Len(instances), out \in SettleOutcomes : ParallelSettle(x, out)

SpecInvoke == InitInvoke /\ [][NextInvoke]_vars

\* the instances of the snapshot that define m
Targets == {inv.snapshot[k].instance : k \in {j \in 1..Len(inv.snapshot) :
                                                 DefinesM(inv.snapshot[j].class)}}

\* positions of the log where m was started
Starts == {k \in 1..Len(inv.log) : inv.log[k].e = "start"}

\* the call started at position k of the log has settled by position b
SettledBy(k, b) ==
    \E c \in (k + 1)..b : inv.log[c].inst = inv.log[k].inst /\ inv.log[c].e # "start"


\* C6: invokeLinear calls m only on instances of the table that define it, each at
\* most once, in ascending order of the definitions' order values, starts a call
\* only after the call before it has settled, and has called every such instance
\* when it resolves.
C6_InvokeLinearSequential ==
    inv.op = "linear" =>
        /\ \A k \in Starts : inv.log[k].inst \in Targets
        /\ \A k, l \in Starts :
              k < l => /\ inv.log[k].inst # inv.log[l].inst
                       /\ DeclaredOrder(instances[inv.log[k].inst].class)
                            <= DeclaredOrder(instances[inv.log[l].inst].class)
                       /\ SettledBy(k, l - 1)
        /\ inv.status = "resolved" =>
              \A x \in Targets : \E k \in Starts : inv.log[k].inst = x

\* orders [5, -1000, 0] and a service without m, fetched in that order, have run
\* as [-1000, 0, 5]
C6_Witness ==
    /\ inv.op = "linear"
    /\ inv.status = "resolved"
    /\ Len(services) = 4
    /\ services[1].class = "A" /\ services[2].class = "B"
    /\ services[3].class = "C" /\ services[4].class = "D"
    /\ Len(inv.log) = 6
    /\ inv.log[1].inst = 2 /\ inv.log[3].inst = 3 /\ inv.log[5].inst = 1

\* C7: invokeParallel starts m exactly once on every instance of the table that
\* defines it, all of them before any result is awaited, resolves only when all
\* calls have resolved and is rejected once one call has rejected.
C7_InvokeParallelStartsAll ==
    inv.op = "parallel" =>
        /\ \A x \in Targets : Cardinality({k \in Starts : inv.log[k].inst = x}) = 1
        /\ \A k \in Starts : inv.log[k].inst \in Targets
        /\ \A k \in Starts, c \in 1..Len(inv.log) :
              inv.log[c].e \in SettleOutcomes => k < c
        /\ inv.status = "resolved" =>
              \A x \in Targets :
                 \E c \in 1..Len(inv.log) : inv.log[c] = InvokeEvent("resolve", x)
        /\ (\E c \in 1..Len(inv.log) : inv.log[c].e = "reject") => inv.status = "rejected"


\* ---------------------------------------------------------------------
\* Retry, debounce and timer: one instance with wrapped methods
\* ---------------------------------------------------------------------

\* calls of one wrapped method in a run
MaxCalls == 2

\* ticks of one timer cycle in a run
MaxTicks == 2

\* the factories of the containers that hold the wrapped instance
ResilienceFactories ==
    {"RetryPlugin", "DebouncePlugin", "TimerPlugin", "BootstrapPlugin", "UserPlugin"}

\* the orders in which extendPlugins has registered them
ResiliencePluginArrays ==
    { <<"RetryPlugin", "DebouncePlugin", "TimerPlugin">>,
      <<"RetryPlugin", "DebouncePlugin", "TimerPlugin", "BootstrapPlugin">>,
      <<"RetryPlugin", "DebouncePlugin", "TimerPlugin", "UserPlugin">> }

\* what a wrapped timer function returns: false ends the cycle
TimerResults == {"false", "go"}

\* how the promise of an attempt of a retry-wrapped function settles
AttemptOutcomes == {"ok", "fail"}

\* the container's state that the wrapped methods leave alone
tvars == <<PluginArray, pluginArray, pluginSet, pluginCounter, services, instances,
           hookLog, destroyLog, destroyAt, tasks, lastGot>>

\* a wrapped method has been called after destroy() of the instance
Called == [since EXCEPT !.anew = @ \/ destroyAt[1] >= 0]

\* a wrapped function has been invoked after destroy() was over, no call since
Invoked == [since EXCEPT !.invoked = @ \/ (DestroyDone(1) /\ ~ since.anew)]

\* a macrotask may run: no continuation of destroy() waits in the microtask queue
TimersMayFire ==
    ~ \E t \in tasks : t.op = "destroy" /\ ~ SlowOnDestroy(pluginArray[t.i])

\* one instance of a class whose wrapped methods are one of `classes`, created
\* by a container that has the resilience plugins
InitWrapped(classes) ==
    /\ PluginArray \in ResiliencePluginArrays
    /\ pluginArray = PluginArray
    /\ pluginSet = [f \in ResilienceFactories |->
                      IF \E k \in 1..Len(PluginArray) : PluginArray[k] = f
                      THEN CHOOSE k \in 1..Len(PluginArray) : PluginArray[k] = f
                      ELSE 0]
    /\ pluginCounter = Len(PluginArray)
    /\ services = <<[key |-> WrappedClass, class |-> WrappedClass, instance |-> 1]>>
    /\ instances = <<[key |-> WrappedClass, class |-> WrappedClass, via |-> "get"]>>
    /\ hookLog = <<CreateAll(PluginArray, 1)>>
    /\ destroyLog = << <<>> >>
    /\ destroyAt = <<-1>>
    /\ tasks = {}
    /\ lastGot = [k \in Keys |-> 0]
    /\ ret = NoRet
    /\ inv = NoInvoke
    /\ decls \in classes
    /\ \E results \in [1..Len(decls) -> TimerResults] :
          LET S == OnCreateTimers([slots |-> NoSlots,
                                   meth |-> [m \in 1..Len(decls) |-> MethodInit(decls[m])]],
                                  decls, 1, results)
          IN slots = S.slots /\ meth = S.meth
    /\ since = NoSince
    /\ flights = <<>>
    /\ signals = NoSignals
    /\ declared = <<"A">>
    /\ registry = NoRegistry
    /\ extended = <<>>
    /\ fields = NoFields
    /\ bus = NoBus

InitResilience == InitWrapped(WrappedClasses)

\* a call of a retry-wrapped method of the instance
CallRetry(m) ==
    LET S == RetryWrapper([slots |-> slots, meth |-> meth], decls, m)
    IN /\ decls[m].kind = "retry"
       /\ meth[m].calls < MaxCalls
       /\ slots' = S.slots
       /\ meth' = S.meth
       /\ since' = Called
       /\ ret' = NoRet
       /\ UNCHANGED <<tvars, evars, inv, decls>>

\* the promise of the attempt in flight settles
SettleRetry(m, out) ==
    LET S == IF out = "ok"
             THEN RetryThen([slots |-> slots, meth |-> meth], decls, m)
             ELSE RetryCatch([slots |-> slots, meth |-> meth], decls, m)
    IN /\ decls[m].kind = "retry"
       /\ meth[m].inflight > 0
       /\ slots' = S.slots
       /\ meth' = S.meth
       /\ ret' = NoRet
       /\ UNCHANGED <<tvars, evars, inv, decls, since>>

\* the timer of a scheduled retry fires
FireRetry(m) ==
    LET S == RetryTimeout([slots |-> slots, meth |-> meth], m)
    IN /\ decls[m].kind = "retry"
       /\ meth[m].timer # 0
       /\ TimersMayFire
       /\ slots' = S.slots
       /\ meth' = S.meth
       /\ since' = Invoked
       /\ ret' = NoRet
       /\ UNCHANGED <<tvars, evars, inv, decls>>

\* a call of a debounce-wrapped method of the instance
CallDebounce(m) ==
    LET S == DebounceWrapper([slots |-> slots, meth |-> meth], decls, m)
    IN /\ decls[m].kind = "debounce"
       /\ meth[m].calls < MaxCalls
       /\ slots' = S.slots
       /\ meth' = S.meth
       /\ since' = Called
       /\ ret' = NoRet
       /\ UNCHANGED <<tvars, evars, inv, decls>>

\* the timer of a debounced call fires
FireDebounce(m) ==
    LET S == DebounceTimeout([slots |-> slots, meth |-> meth], decls, m)
    IN /\ decls[m].kind = "debounce"
       /\ meth[m].timer # 0
       /\ TimersMayFire
       /\ slots' = S.slots
       /\ meth' = S.meth
       /\ since' = Invoked
       /\ ret' = NoRet
       /\ UNCHANGED <<tvars, evars, inv, decls>>

\* a call of a timer-wrapped method of the instance (starter)
StartTimer(m, result) ==
    LET S == TimerStarter([slots |-> slots, meth |-> meth], decls, m, result)
    IN /\ decls[m].kind = "timer"
       /\ meth[m].calls < MaxCalls
       /\ slots' = S.slots
       /\ meth' = S.meth
       /\ since' = Called
       /\ ret' = NoRet
       /\ UNCHANGED <<tvars, evars, inv, decls>>

\* the timer of the next tick fires
FireTimer(m, result) ==
    LET S == TimerTimeout([slots |-> slots, meth |-> meth], decls, m, result)
    IN /\ decls[m].kind = "timer"
       /\ meth[m].timer # 0
       /\ meth[m].tick <= MaxTicks
       /\ TimersMayFire
       /\ slots' = S.slots
       /\ meth' = S.meth
       /\ since' = Invoked
       /\ ret' = NoRet
       /\ UNCHANGED <<tvars, evars, inv, decls>>

NextResilience ==
    \/ \E m \in 1..Len(decls) : CallRetry(m)
    \/ \E m \in 1..Len(decls), out \in AttemptOutcomes : SettleRetry(m, out)
    \/ \E m \in 1..Len(decls) : FireRetry(m)
    \/ \E m \in 1..Len(decls) : CallDebounce(m)
    \/ \E m \in 1..Len(decls) : FireDebounce(m)
    \/ \E m \in 1..Len(decls), result \in TimerResults : StartTimer(m, result)
    \/ \E m \in 1..Len(decls), result \in TimerResults : FireTimer(m, result)
    \/ Destroy(1)
    \/ \E t \in tasks : DestroyResume(t)

SpecResilience == InitResilience /\ [][NextResilience]_vars


\* a timer of the wrapped instance is pending
TimerPending == \E m \in 1..Len(meth) : meth[m].timer # 0

\* positions of a log where a call of the wrapper started a run
CallsAt(log) == {p \in 1..Len(log) : log[p].e = "call"}

\* the last position of the run that starts at position p
RunEnd(log, p) ==
    IF \E q \in CallsAt(log) : q > p
    THEN (CHOOSE q \in CallsAt(log) : q > p /\ \A r \in CallsAt(log) : r > p => q <= r) - 1
    ELSE Len(log)

\* the positions of the attempts of the run that starts at position p
RunAttempts(log, p) == {k \in p..RunEnd(log, p) : log[k].e = "attempt"}

\* C8: when instance.destroy() returns to its caller, no retry, debounce or timer
\* trigger of the instance is pending any more, whatever plugins are registered.
C8_DestroyStopsTriggersBeforeReturn ==
    (ret.op = "destroy" /\ instances[ret.inst].class = WrappedClass) => ~ TimerPending

\* C9: once destroy() of an instance that had a pending trigger is over, and as
\* long as no wrapped method is called anew, no trigger of the instance is pending
\* and no wrapped function is invoked.
C9_NothingPendingAfterDestroy ==
    (Len(decls) > 0 /\ DestroyDone(1) /\ since.had /\ ~ since.anew) =>
        ~ TimerPending /\ ~ since.invoked

\* C10: every invocation of a retry wrapper (shots N > 0, linear curve) over a
\* function that always rejects makes at most N attempts, each retry after exactly
\* the configured interval, and rejects only after the N-th attempt, with its error.
C10_RetryMakesShotsAttempts ==
    \A m \in 1..Len(decls) :
        ( /\ decls[m].kind = "retry" /\ decls[m].shots > 0 /\ decls[m].curve = "linear"
          /\ destroyAt[1] = -1
          /\ \A k \in 1..Len(meth[m].log) : meth[m].log[k].e # "resolve" ) =>
        \A p \in CallsAt(meth[m].log) :
            LET log == meth[m].log
                att == RunAttempts(log, p)
            IN /\ Cardinality(att) <= decls[m].shots
               /\ \A k \in att :
                     log[k].after = IF \E j \in att : j < k THEN decls[m].interval ELSE 0
               /\ \A k \in p..RunEnd(log, p) :
                     log[k].e = "reject" =>
                        /\ Cardinality(att) = decls[m].shots
                        /\ \A j \in att : log[j].n <= log[k].n
                        /\ \E j \in att : log[j].n = log[k].n


\* C11: on the 'log' curve the k-th retry of an invocation (k = 1, 2, ...) is
\* scheduled with the delay min(interval * 2^(k-1), maximumDelay): 100, 200, 300,
\* 300 for interval 100 and maximumDelay 300.
C11_LogCurveDelays ==
    \A m \in 1..Len(decls) :
        (decls[m].kind = "retry" /\ decls[m].curve = "log") =>
        \A p \in CallsAt(meth[m].log) :
            LET log == meth[m].log
                att == RunAttempts(log, p)
            IN \A k \in att :
                  LET nth == Cardinality({j \in att : j < k})
                      due == decls[m].interval * 2 ^ (nth - 1)
                  IN nth >= 1 =>
                        log[k].after = IF due < decls[m].max THEN due ELSE decls[m].max


\* C12: a retry-wrapped method never has two attempts outstanding, nor an attempt
\* and a scheduled retry at once; and a call of the wrapper made while an attempt
\* is in flight or a retry is scheduled invokes nothing and leaves the counter,
\* the delay, the running flag, the pending timer and the timers array as they were.
C12_RetryCallsDroppedWhileRunning ==
    /\ [](\A m \in 1..Len(decls) :
            decls[m].kind = "retry" =>
                /\ meth[m].inflight <= 1
                /\ ~ (meth[m].inflight = 1 /\ meth[m].timer # 0))
    /\ [][\A m \in 1..Len(decls) :
            ( /\ decls[m].kind = "retry"
              /\ meth'[m].calls = meth[m].calls + 1
              /\ (meth[m].inflight > 0 \/ meth[m].timer # 0) ) =>
                /\ meth'[m] = [meth[m] EXCEPT !.calls = @ + 1,
                                              !.log = Append(@, Ev("drop", 0, 0))]
                /\ slots' = slots]_vars

\* a call of the wrapper was dropped while the first attempt is in flight
C12_Witness ==
    \E m \in 1..Len(decls) :
        /\ decls[m].kind = "retry"
        /\ Len(meth[m].log) = 3
        /\ meth[m].log[3].e = "drop"
        /\ meth[m].inflight = 1
        /\ meth[m].counter = 1


\* C13: for a debounced method of an instance that is not destroyed, the wrapped
\* function is invoked only by the timer of the latest call, ms after it and with
\* its arguments, once per burst; and after a call the timer of that call is
\* pending until it fires, so that every burst ends in an invocation.
C13_DebounceLastCallRuns ==
    \A m \in 1..Len(decls) :
        (decls[m].kind = "debounce" /\ destroyAt[1] = -1) =>
            LET log == meth[m].log
            IN /\ \A k \in 1..Len(log) :
                     log[k].e = "invoke" =>
                        /\ k > 1
                        /\ log[k - 1].e = "call"
                        /\ log[k].n = log[k - 1].n
                        /\ log[k].after = decls[m].interval
               /\ (Len(log) > 0 /\ log[Len(log)].e = "call") =>
                     meth[m].timer = decls[m].interval


\* positions of a log where the wrapped function was invoked
InvokesAt(log) == {p \in 1..Len(log) : log[p].e = "invoke"}

\* C17: a timer-wrapped method that starts by itself is invoked at creation with
\* (elapsed 0, count 0); every invocation gets elapsed = count * interval; counts
\* go up by one from tick to tick, each tick one interval after the last, and only
\* a call of the starter begins again at 0; with shots > 0 no count reaches shots.
\* Until the instance is destroyed the next tick is scheduled after an invocation
\* exactly when the function did not return false and shots is 0 or the count is
\* below shots - 1.
C17_TimerCycle ==
    \A m \in 1..Len(decls) :
        (decls[m].kind = "timer" /\ ~ decls[m].manual) =>
            LET log == meth[m].log
                d == decls[m]
            IN /\ Len(log) >= 1
               /\ log[1] = Ev("invoke", 0, 0)
               /\ \A p \in InvokesAt(log) :
                     /\ log[p].after = log[p].n * d.interval
                     /\ d.shots > 0 => log[p].n < d.shots
                     /\ (p > 1 /\ log[p].n = 0) => log[p - 1].e = "call"
                     /\ log[p].n > 0 =>
                           \E q \in InvokesAt(log) :
                              /\ q < p
                              /\ log[q].n = log[p].n - 1
                              /\ \A k \in (q + 1)..(p - 1) : log[k].e = "drop"
               /\ meth[m].timer \in {0, d.interval}
               /\ meth[m].last = "false" => meth[m].timer = 0
               /\ (meth[m].last = "go" /\ destroyAt[1] = -1) =>
                     LET k == log[CHOOSE p \in InvokesAt(log) :
                                      \A q \in InvokesAt(log) : q <= p].n
                     IN (meth[m].timer # 0) <=> (d.shots = 0 \/ k < d.shots - 1)

\* a timer with two shots that started by itself has made both invocations and
\* nothing more is scheduled
C17_Witness ==
    \E m \in 1..Len(decls) :
        /\ decls[m] = TimerDecl(2, FALSE)
        /\ meth[m].log = <<Ev("invoke", 0, 0), Ev("invoke", 1, 1000)>>
        /\ meth[m].last = "go"
        /\ meth[m].timer = 0
        /\ ~ meth[m].running
        /\ destroyAt[1] = -1

\* C30: when an invocation of a retry wrapper has finished, by success or by
\* using up its shots, the closure is as at creation: the counter gives the next
\* invocation the full budget of shots attempts and the delay is the configured
\* interval; every invocation that is rejected has made shots attempts.
C30_RetryStateClearedOnCompletion ==
    \A m \in 1..Len(decls) :
        (decls[m].kind = "retry" /\ destroyAt[1] = -1) =>
            /\ ~ meth[m].running =>
                  /\ meth[m].counter = MethodInit(decls[m]).counter
                  /\ meth[m].delay = decls[m].interval
            /\ \A p \in CallsAt(meth[m].log) :
                  \A k \in p..RunEnd(meth[m].log, p) :
                      (meth[m].log[k].e = "reject" /\ decls[m].shots > 0) =>
                          Cardinality(RunAttempts(meth[m].log, p)) = decls[m].shots


\* ---------------------------------------------------------------------
\* Single flight: the wrapper of the cache plugin
\* ---------------------------------------------------------------------

\* calls of one single-flight method in a run
MaxFlightCalls == 3

\* the single-flight methods of the instance (definitions.forEach)
FlightMethods == {"load", "save"}

\* what proxyFunction.apply does: it hands back a promise, or it throws at once
FlightCalls == {"promise", "throw"}

\* how the promise of the wrapped function settles
FlightOutcomes == {"ok", "fail"}

\* const resolvers = []; const rejectors = []; let pending = false
FlightInit ==
    [pending |-> FALSE, resolvers |-> <<>>, rejectors |-> <<>>, inflight |-> 0,
     settled |-> "none", initiator |-> 0, invoked |-> 0, callers |-> <<>>]

\* a caller of the wrapper: the invocation pending when it called, what its promise got
Caller(flight, init, got, value) ==
    [flight |-> flight, init |-> init, got |-> got, value |-> value]

\* acc(v) or rej(v) for the callers of the sequence ws: a settled promise stays as it is
RECURSIVE SettleAll(_, _, _, _)
SettleAll(cs, ws, got, v) ==
    IF ws = <<>> THEN cs
    ELSE SettleAll(IF cs[Head(ws)].got = "wait"
                   THEN [cs EXCEPT ![Head(ws)].got = got, ![Head(ws)].value = v]
                   ELSE cs,
                   Tail(ws), got, v)

\* mutant of FlightThen: the waiters are forgotten, only the first caller gets the result
FlightThenAlone(F) ==
    [F EXCEPT !.callers = SettleAll(@, <<F.initiator>>, "ok", F.inflight),
              !.rejectors = <<>>, !.resolvers = <<>>,
              !.pending = FALSE, !.inflight = 0, !.settled = "none", !.initiator = 0]

\* replaceFunction after the await, result in hand: resolvers.forEach((acc) =>
\* acc(result)), both lists spliced empty, pending = false, return result
FlightThen(F) ==
    [F EXCEPT !.callers = SettleAll(@, Append(F.resolvers, F.initiator), "ok", F.inflight),
              !.rejectors = <<>>, !.resolvers = <<>>,
              !.pending = FALSE, !.inflight = 0, !.settled = "none", !.initiator = 0]

\* mutant of FlightCatch: the lists are kept and pending stays set
FlightCatchKeeps(F) ==
    [F EXCEPT !.callers = SettleAll(@, Append(F.rejectors, F.initiator), "fail", F.inflight),
              !.inflight = 0, !.settled = "none", !.initiator = 0]

\* replaceFunction, catch (e): rejectors.forEach((rej) => rej(e)), both lists
\* spliced empty, pending = false, throw e
FlightCatch(F) ==
    [F EXCEPT !.callers = SettleAll(@, Append(F.rejectors, F.initiator), "fail", F.inflight),
              !.rejectors = <<>>, !.resolvers = <<>>,
              !.pending = FALSE, !.inflight = 0, !.settled = "none", !.initiator = 0]

\* replaceFunction(...args) up to its return or its await
ReplaceFunction(F, call) ==
    LET c == Len(F.callers) + 1
    IN IF F.pending
       THEN [F EXCEPT !.callers = Append(@, Caller(F.invoked, FALSE, "wait", 0)),
                      !.resolvers = Append(@, c),
                      !.rejectors = Append(@, c)]
       ELSE LET G == [F EXCEPT !.pending = TRUE,
                               !.invoked = @ + 1,
                               !.inflight = F.invoked + 1,
                               !.initiator = c,
                               !.callers = Append(@, Caller(F.invoked + 1, TRUE, "wait", 0))]
            IN IF call = "throw" THEN FlightCatch(G) ELSE G

InitFlight ==
    /\ PluginArray = InitialPluginArray
    /\ pluginArray = InitialPluginArray
    /\ pluginSet = PluginSetAfter([f \in Factories |-> 0], <<>>, InitialPluginArray)
    /\ pluginCounter = Len(InitialPluginArray)
    /\ services = <<>>
    /\ instances = <<>>
    /\ hookLog = <<>>
    /\ destroyLog = <<>>
    /\ destroyAt = <<>>
    /\ tasks = {}
    /\ lastGot = [k \in Keys |-> 0]
    /\ ret = NoRet
    /\ inv = NoInvoke
    /\ decls = <<>>
    /\ slots = NoSlots
    /\ meth = <<>>
    /\ since = NoSince
    /\ flights = [m \in FlightMethods |-> FlightInit]
    /\ signals = NoSignals
    /\ declared = <<"A">>
    /\ registry = NoRegistry
    /\ extended = <<>>
    /\ fields = NoFields
    /\ bus = NoBus

\* a call of the single-flight method m
CallFlight(m, call) ==
    /\ Len(flights[m].callers) < MaxFlightCalls
    /\ flights' = [flights EXCEPT ![m] = ReplaceFunction(@, call)]
    /\ UNCHANGED <<cvars, inv, rvars, signals, dvars>>

\* the promise the wrapper awaits settles
SettleFlight(m, out) ==
    /\ flights[m].inflight # 0
    /\ flights[m].settled = "none"
    /\ flights' = [flights EXCEPT ![m].settled = out]
    /\ UNCHANGED <<cvars, inv, rvars, signals, dvars>>

\* the wrapper resumes after its await
ResumeFlight(m) ==
    /\ flights[m].settled # "none"
    /\ flights' = [flights EXCEPT ![m] = IF @.settled = "ok" THEN FlightThen(@)
                                                              ELSE FlightCatch(@)]
    /\ UNCHANGED <<cvars, inv, rvars, signals, dvars>>

NextFlight ==
    \/ \E m \in FlightMethods, call \in FlightCalls : CallFlight(m, call)
    \/ \E m \in FlightMethods, out \in FlightOutcomes : SettleFlight(m, out)
    \/ \E m \in FlightMethods : ResumeFlight(m)

SpecFlight == InitFlight /\ [][NextFlight]_vars

\* the callers of method m that called while invocation k was pending, its
\* initiating caller included
CallersOf(m, k) == {c \in 1..Len(flights[m].callers) : flights[m].callers[c].flight = k}

\* what the initiating caller of invocation k of method m got
InitiatorGot(m, k) ==
    LET c == CHOOSE c \in CallersOf(m, k) : flights[m].callers[c].init
    IN flights[m].callers[c].got

\* C14: calls of a single-flight method made while an invocation is pending invoke
\* nothing (every invocation has exactly one initiating caller), and once the
\* initiating caller of an invocation has its result, every caller that called
\* during that invocation has the same result.
C14_SingleFlightSharesResult ==
    \A m \in FlightMethods :
        /\ flights[m].invoked =
              Cardinality({c \in 1..Len(flights[m].callers) : flights[m].callers[c].init})
        /\ \A k \in 1..flights[m].invoked :
              /\ Cardinality({c \in CallersOf(m, k) : flights[m].callers[c].init}) = 1
              /\ InitiatorGot(m, k) = "ok" =>
                    \A c \in CallersOf(m, k) :
                        /\ flights[m].callers[c].got = "ok"
                        /\ flights[m].callers[c].value = k

\* two callers attached to a pending invocation and all three got its value
C14_Witness ==
    \E m \in FlightMethods :
        /\ Len(flights[m].callers) = 3
        /\ \A c \in 1..3 : flights[m].callers[c] = Caller(1, c = 1, "ok", 1)

\* C15: once the initiating caller of an invocation is rejected, every caller that
\* called during that invocation is rejected with the same error; whenever no
\* invocation is pending the waiter lists are empty and no caller is left waiting;
\* and a call made then starts a fresh invocation.
C15_SingleFlightRejectsAll ==
    /\ [](\A m \in FlightMethods :
            /\ \A k \in 1..flights[m].invoked :
                  InitiatorGot(m, k) = "fail" =>
                     \A c \in CallersOf(m, k) :
                        /\ flights[m].callers[c].got = "fail"
                        /\ flights[m].callers[c].value = k
            /\ ~ flights[m].pending =>
                  /\ flights[m].resolvers = <<>>
                  /\ flights[m].rejectors = <<>>
                  /\ \A c \in 1..Len(flights[m].callers) : flights[m].callers[c].got # "wait")
    /\ [][\A m \in FlightMethods :
            (~ flights[m].pending /\ Len(flights'[m].callers) > Len(flights[m].callers)) =>
                flights'[m].invoked = flights[m].invoked + 1]_vars

\* an invocation with a waiter was rejected and the next call started a second invocation
C15_Witness ==
    \E m \in FlightMethods :
        /\ Len(flights[m].callers) = 3
        /\ flights[m].callers[1] = Caller(1, TRUE, "fail", 1)
        /\ flights[m].callers[2] = Caller(1, FALSE, "fail", 1)
        /\ flights[m].callers[3] = Caller(2, TRUE, "wait", 0)

\* ---------------------------------------------------------------------
\* Signal fields (SignalPlugin)
\* ---------------------------------------------------------------------

\* the number of writes the signal specification makes
MaxWrites == 4

\* SignalRegistry.get(target): the signal fields of the class, in declaration order
SignalDefinitions == <<"count", "total">>

\* the values the callers write
SignalValues == {1, 2}

\* metadata.blueprint: the value each field has on the blueprint of the class
Blueprint == [count |-> 1, total |-> 1]

\* the type tag of the change event
NotifyEventId == 0

\* the class whose instances carry the signal fields
SignalClass == "S"

\* the fields of the class, as a set
SignalFields == {SignalDefinitions[i] : i \in 1..Len(SignalDefinitions)}

\* a flag that does not look at the value held
AlwaysSimilar(held, value) == value = value

\* val.value === value
IsSimilar(held, value) == held = value

\* the event object the setter builds; `write` is the number of the write that
\* built it (the identity of the object: both channels get the same object)
NotifyEvent(S, x, f, v) ==
    [type |-> NotifyEventId, propertyName |-> f, value |-> v, target |-> SignalClass,
     isSimilar |-> IsSimilar(S.vault[x][f], v), write |-> Len(S.writes) + 1]

\* makeService and SignalPlugin.onCreate for a new instance: its own bus, and a
\* vault entry per signal field holding the value read through the blueprint
SignalOnCreate(S) ==
    [S EXCEPT !.vault = Append(@, [f \in SignalFields |-> Blueprint[f]]),
              !.instance = Append(@, <<>>)]

\* a getter that hands out the value the field was seeded with
FieldGetSeeded(S, x, f) == Blueprint[f]

\* get: () => vault.get(propertyName)?.value
FieldGet(S, x, f) == S.vault[x][f]

\* a listener of a channel is called with an event of instance x and reads the
\* field the event names: `seen` is what it gets, `after` the number of writes
\* made up to then
ListenerRead(S, channel, event, x) ==
    [write |-> event.write, channel |-> channel,
     seen |-> FieldGet(S, x, event.propertyName), after |-> Len(S.writes)]

\* the setter of field f of instance x, called with v. The event is built from
\* the value held, the vault is written, then the event is dispatched on the
\* container channel and then on the channel of the instance. `answer` is what
\* a listener of the container channel does while it is being called: nothing
\* (0) or one write of its own to the same field.
RECURSIVE SignalSetter(_, _, _, _, _)
SignalSetter(S, x, f, v, answer) ==
    IF f \notin DOMAIN S.vault[x] THEN S
    ELSE LET event == NotifyEvent(S, x, f, v)
             S0 == [S EXCEPT !.vault[x][f] = v,
                             !.writes = Append(@, [instance |-> x, propertyName |-> f,
                                                   value |-> v, held |-> S.vault[x][f]])]
             S1 == [S0 EXCEPT !.container = Append(@, event),
                              !.reads = Append(@, ListenerRead(S0, "container", event, x))]
             S2 == IF answer = 0 THEN S1 ELSE SignalSetter(S1, x, f, answer, 0)
         IN [S2 EXCEPT !.instance[x] = Append(@, event),
                       !.reads = Append(@, ListenerRead(S2, "instance", event, x))]

\* instance.reset(): every enumerable own key is assigned the blueprint value;
\* the signal fields are such keys, so each goes through its setter
RECURSIVE SignalReset(_, _, _)
SignalReset(S, x, i) ==
    IF i > Len(SignalDefinitions) THEN S
    ELSE SignalReset(SignalSetter(S, x, SignalDefinitions[i],
                                  Blueprint[SignalDefinitions[i]], 0), x, i + 1)

InitSignal ==
    /\ PluginArray = InitialPluginArray
    /\ pluginArray = InitialPluginArray
    /\ pluginSet = PluginSetAfter([f \in Factories |-> 0], <<>>, InitialPluginArray)
    /\ pluginCounter = Len(InitialPluginArray)
    /\ services = <<>>
    /\ instances = <<>>
    /\ hookLog = <<>>
    /\ destroyLog = <<>>
    /\ destroyAt = <<>>
    /\ tasks = {}
    /\ lastGot = [k \in Keys |-> 0]
    /\ ret = NoRet
    /\ inv = NoInvoke
    /\ decls = <<>>
    /\ slots = NoSlots
    /\ meth = <<>>
    /\ since = NoSince
    /\ flights = <<>>
    /\ signals = NoSignals
    /\ declared = <<"A">>
    /\ registry = NoRegistry
    /\ extended = <<>>
    /\ fields = NoFields
    /\ bus = NoBus

\* an instance of the class is created
CreateSignal ==
    /\ Len(signals.vault) < MaxInst
    /\ signals' = SignalOnCreate(signals)
    /\ UNCHANGED <<cvars, inv, rvars, flights, dvars>>

\* instance[f] = v
WriteSignal(x, f, v, answer) ==
    /\ x \in DOMAIN signals.vault
    /\ Len(signals.writes) + (IF answer = 0 THEN 1 ELSE 2) <= MaxWrites
    /\ signals' = SignalSetter(signals, x, f, v, answer)
    /\ UNCHANGED <<cvars, inv, rvars, flights, dvars>>

\* instance.reset()
ResetSignal(x) ==
    /\ x \in DOMAIN signals.vault
    /\ Len(signals.writes) + Len(SignalDefinitions) <= MaxWrites
    /\ signals' = SignalReset(signals, x, 1)
    /\ UNCHANGED <<cvars, inv, rvars, flights, dvars>>

NextSignal ==
    \/ CreateSignal
    \/ \E x \in 1..MaxInst, f \in SignalFields, v \in SignalValues,
          answer \in {0} \cup SignalValues : WriteSignal(x, f, v, answer)
    \/ \E x \in 1..MaxInst : ResetSignal(x)

SpecSignal == InitSignal /\ [][NextSignal]_vars

\* the events of a sequence of events that write w built
EventsOf(events, w) == {i \in 1..Len(events) : events[i].write = w}

\* C16: every write to a signal field dispatches exactly one event on the channel
\* of the owning instance (none on the channel of another instance) and exactly
\* one on the container channel, and the event says isSimilar exactly when the
\* value written is the value the field held before the write.
C16_WriteDispatchesOncePerChannel ==
    \A w \in 1..Len(signals.writes) :
        LET r == signals.writes[w]
        IN /\ Cardinality(EventsOf(signals.container, w)) = 1
           /\ \A x \in DOMAIN signals.instance :
                 Cardinality(EventsOf(signals.instance[x], w)) =
                     IF x = r.instance THEN 1 ELSE 0
           /\ \A i \in EventsOf(signals.container, w) :
                 /\ signals.container[i].isSimilar = (r.held = r.value)
                 /\ signals.container[i].propertyName = r.propertyName
                 /\ signals.container[i].value = r.value
           /\ \A i \in EventsOf(signals.instance[r.instance], w) :
                 signals.instance[r.instance][i] \in
                     {signals.container[k] : k \in EventsOf(signals.container, w)}

\* a field holding 1 was written 1 and then 2: the first event says similar, the
\* second does not, and each channel has both
C16_Witness ==
    /\ Len(signals.vault) = 2
    /\ Len(signals.writes) = 2
    /\ signals.writes[1] = [instance |-> 1, propertyName |-> "count", value |-> 1, held |-> 1]
    /\ signals.writes[2] = [instance |-> 1, propertyName |-> "count", value |-> 2, held |-> 1]
    /\ Len(signals.container) = 2
    /\ signals.container[1].isSimilar
    /\ ~ signals.container[2].isSimilar
    /\ signals.instance[1] = signals.container
    /\ signals.instance[2] = <<>>

\* the fields of the notification event
NotifyEventFields == {"type", "propertyName", "value", "target", "instance", "isSimilar"}

\* event e has the fields of the notification event and they say what write w did
CarriesWrite(e, w) ==
    /\ NotifyEventFields \subseteq DOMAIN e
    /\ e.type = NotifyEventId
    /\ e.propertyName = signals.writes[w].propertyName
    /\ e.value = signals.writes[w].value
    /\ e.target = SignalClass
    /\ e.instance = signals.writes[w].instance
    /\ e.isSimilar \in BOOLEAN

\* C27: every event a signal setter dispatches carries the sentinel type, the
\* name of the field, the value written, the definition, the instance whose
\* field was written and the isSimilar flag, on the channel of the instance and
\* on the channel of the container.
C27_EventCarriesInstance ==
    /\ \A i \in 1..Len(signals.container) :
          CarriesWrite(signals.container[i], signals.container[i].write)
    /\ \A x \in DOMAIN signals.instance : \A i \in 1..Len(signals.instance[x]) :
          CarriesWrite(signals.instance[x][i], signals.instance[x][i].write)

\* ---------------------------------------------------------------------
\* Declarations: Service(options, definition)
\* ---------------------------------------------------------------------

\* calls of Service() in a run
MaxDeclarations == 3

\* options.identifier of the calls, as characters
DeclarationIdentifiers == { <<"A">>, <<"_", "A">>, <<"B">> }

\* options.order of the calls; 0 is the default
DeclarationOrders == {0, 5}

\* the definition argument: for each key what its descriptor evaluates to
DeclarationFields == { [count |-> 1], [count |-> 2] }

\* a registry that never finds an identifier
ExistingNever(defs, identifier) == 0

\* ServiceIdentifiers.get(identifier): the position of the definition, 0 for undefined
Existing(defs, identifier) ==
    IF \E k \in 1..Len(defs) : defs[k].identifier = identifier
    THEN CHOOSE k \in 1..Len(defs) : defs[k].identifier = identifier
    ELSE 0

\* Service(options, definition) on the registries R: the existing definition is
\* returned when the stored form of the identifier is known; else a definition is
\* built with index counter++, every descriptor is run into its blueprint, and
\* it is added to ServiceIdentifiers and ServiceRegistry
Service(R, chars, order, definition) ==
    LET identifier == Join(Sanitize(chars))
        existing == Existing(R.defs, identifier)
    IN IF existing # 0
       THEN [R EXCEPT !.calls = @ + 1,
                      !.last = [identifier |-> Join(chars), returned |-> existing]]
       ELSE [defs |-> Append(R.defs, [identifier |-> identifier, order |-> order,
                                      index |-> R.counter, blueprint |-> definition]),
             counter |-> R.counter + 1,
             ran |-> Append(R.ran, [identifier |-> identifier, keys |-> DOMAIN definition]),
             calls |-> R.calls + 1,
             last |-> [identifier |-> Join(chars), returned |-> Len(R.defs) + 1]]

InitDeclare ==
    /\ PluginArray = InitialPluginArray
    /\ pluginArray = InitialPluginArray
    /\ pluginSet = PluginSetAfter([f \in Factories |-> 0], <<>>, InitialPluginArray)
    /\ pluginCounter = Len(InitialPluginArray)
    /\ services = <<>>
    /\ instances = <<>>
    /\ hookLog = <<>>
    /\ destroyLog = <<>>
    /\ destroyAt = <<>>
    /\ tasks = {}
    /\ lastGot = [k \in Keys |-> 0]
    /\ ret = NoRet
    /\ inv = NoInvoke
    /\ decls = <<>>
    /\ slots = NoSlots
    /\ meth = <<>>
    /\ since = NoSince
    /\ flights = <<>>
    /\ signals = NoSignals
    /\ declared = <<"A">>
    /\ registry = NoRegistry
    /\ extended = <<>>
    /\ fields = NoFields
    /\ bus = NoBus

\* a call of Service()
Declare(chars, order, definition) ==
    /\ registry.calls < MaxDeclarations
    /\ registry' = Service(registry, chars, order, definition)
    /\ UNCHANGED <<cvars, inv, rvars, flights, signals, declared, extended, fields, bus>>

NextDeclare ==
    \E chars \in DeclarationIdentifiers, order \in DeclarationOrders,
       definition \in DeclarationFields : Declare(chars, order, definition)

SpecDeclare == InitDeclare /\ [][NextDeclare]_vars

\* C22: a call of Service() with an identifier whose stored form is already in
\* ServiceIdentifiers returns the existing definition and leaves the registries
\* as they were: no definition is added, no blueprint changes, no descriptor is
\* run and the counter keeps its value.
C22_DuplicateDeclarationReturnsExisting ==
    [][\A k \in 1..Len(registry.defs) :
          (/\ registry'.calls = registry.calls + 1
           /\ \E chars \in DeclarationIdentifiers :
                 /\ Join(chars) = registry'.last.identifier
                 /\ Join(Sanitize(chars)) = registry.defs[k].identifier) =>
              /\ registry'.last.returned = k
              /\ registry'.defs = registry.defs
              /\ registry'.ran = registry.ran
              /\ registry'.counter = registry.counter]_vars

\* 'A' was declared, then 'B', and a declaration of '_A' with other fields has
\* returned the first definition
C22_Witness ==
    /\ Len(registry.defs) = 2
    /\ registry.defs[1] = [identifier |-> "A", order |-> 0, index |-> 0,
                           blueprint |-> [count |-> 1]]
    /\ registry.defs[2].identifier = "B"
    /\ registry.last = [identifier |-> "_A", returned |-> 1]
    /\ registry.counter = 2
    /\ Len(registry.ran) = 2
    /\ registry.calls = 3

\* ---------------------------------------------------------------------
\* Registration of plugin factories (registries.extendPlugins)
\* ---------------------------------------------------------------------

\* calls of extendPlugins the model follows
MaxExtends == 4

\* the registries module has been loaded, no plugin module yet, no container
InitPlugins ==
    /\ PluginArray = <<>>
    /\ pluginArray = <<>>
    /\ pluginSet = [f \in Factories |-> 0]
    /\ pluginCounter = 0
    /\ services = <<>>
    /\ instances = <<>>
    /\ hookLog = <<>>
    /\ destroyLog = <<>>
    /\ destroyAt = <<>>
    /\ tasks = {}
    /\ lastGot = [k \in Keys |-> 0]
    /\ ret = NoRet
    /\ inv = NoInvoke
    /\ decls = <<>>
    /\ slots = NoSlots
    /\ meth = <<>>
    /\ since = NoSince
    /\ flights = <<>>
    /\ signals = NoSignals
    /\ declared = <<"A">>
    /\ registry = NoRegistry
    /\ extended = <<>>
    /\ fields = NoFields
    /\ bus = NoBus

\* a call of extendPlugins(plugin), registered or not
ExtendPluginsCall(f) ==
    /\ Len(extended) < MaxExtends
    /\ extended' = Append(extended, f)
    /\ PluginArray' = Extended(PluginArray, f)
    /\ UNCHANGED <<pluginArray, pluginSet, pluginCounter, services, instances,
                   hookLog, destroyLog, destroyAt, tasks, lastGot, ret>>
    /\ UNCHANGED <<inv, rvars, flights, signals, declared, registry, fields, bus>>

NextPlugins == \E f \in Factories : ExtendPluginsCall(f)

SpecPlugins == InitPlugins /\ [][NextPlugins]_vars

\* the first call of extendPlugins with factory f
FirstExtend(f) ==
    CHOOSE j \in 1..Len(extended) :
        /\ extended[j] = f
        /\ \A i \in 1..(j - 1) : extended[i] # f

\* C23: extendPlugins with a factory registered before leaves the ordered
\* plugin list as it was, and the list holds every factory extendPlugins was
\* called with exactly once, in the order of the first calls.
C23_ExtendPluginsIdempotent ==
    /\ [](/\ \A f \in Factories :
               Cardinality({k \in 1..Len(PluginArray) : PluginArray[k] = f})
                   = IF \E j \in 1..Len(extended) : extended[j] = f THEN 1 ELSE 0
          /\ \A a, b \in 1..Len(PluginArray) :
               a < b => FirstExtend(PluginArray[a]) < FirstExtend(PluginArray[b]))
    /\ [][\A f \in Factories :
            (/\ extended' = Append(extended, f)
             /\ \E j \in 1..Len(extended) : extended[j] = f) =>
                PluginArray' = PluginArray]_vars

\* a factory was registered, another one after it, then the first one again
C23_Witness ==
    /\ extended = <<"TagsPlugin", "RetryPlugin", "TagsPlugin">>
    /\ PluginArray = <<"TagsPlugin", "RetryPlugin">>

\* ---------------------------------------------------------------------
\* Fields of an instance and instance.reset()
\* ---------------------------------------------------------------------

\* operations on the fields of the instance the model follows
MaxFieldOps == 4

\* a number, a reference to an array of the heap, and no own property
Num(n) == [kind |-> "num", v |-> n]
Ref(a) == [kind |-> "ref", v |-> a]
Absent == [kind |-> "none", v |-> 0]

\* the definition: count: val(0), users: val([]), tags: signal(val([]))
FieldNames == <<"count", "users", "tags">>

\* the arrays of the definition, as their lengths, by heap address
DeclaredHeap == <<0, 0>>

\* metadata.blueprint after Service(): the values the descriptors returned
DeclaredBlueprint == [count |-> Num(0), users |-> Ref(1), tags |-> Ref(2)]

\* structuredClone(value): a number is itself, an array is copied to a new address
StructuredClone(heap, value) ==
    IF value.kind = "ref"
    THEN [heap |-> Append(heap, heap[value.v]), value |-> Ref(Len(heap) + 1)]
    ELSE [heap |-> heap, value |-> value]

\* instance[key]: the own property, else the property of the prototype,
\* which is metadata.blueprint
ReadField(F, key) == IF F.own[key] # Absent THEN F.own[key] ELSE F.blueprint[key]

\* Object.keys(instance).forEach(key => instance[key] =
\* structuredClone(metadata.blueprint[key])), from the i-th field on
RECURSIVE ResetFrom(_, _)
ResetFrom(F, i) ==
    IF i > Len(FieldNames) THEN F
    ELSE LET key == FieldNames[i]
             clone == StructuredClone(F.heap, F.blueprint[key])
         IN IF F.own[key] = Absent
            THEN ResetFrom(F, i + 1)
            ELSE ResetFrom([F EXCEPT !.heap = clone.heap, !.own[key] = clone.value], i + 1)

\* one instance after getByClass: Object.create(metadata.blueprint) has no own
\* field, SignalPlugin.onCreate has defined the accessor `tags` over the value
\* the instance read, which is the array of the blueprint
InitFields ==
    /\ PluginArray = InitialPluginArray
    /\ pluginArray = InitialPluginArray
    /\ pluginSet = PluginSetAfter([f \in Factories |-> 0], <<>>, InitialPluginArray)
    /\ pluginCounter = Len(InitialPluginArray)
    /\ services = << [key |-> "A", class |-> "A", instance |-> 1] >>
    /\ instances = << [key |-> "A", class |-> "A", via |-> "get"] >>
    /\ hookLog = << CreateAll(InitialPluginArray, 1) >>
    /\ destroyLog = << <<>> >>
    /\ destroyAt = << -1 >>
    /\ tasks = {}
    /\ lastGot = [k \in Keys |-> IF k = "A" THEN 1 ELSE 0]
    /\ ret = NoRet
    /\ inv = NoInvoke
    /\ decls = <<>>
    /\ slots = NoSlots
    /\ meth = <<>>
    /\ since = NoSince
    /\ flights = <<>>
    /\ signals = NoSignals
    /\ declared = <<"A">>
    /\ registry = NoRegistry
    /\ extended = <<>>
    /\ fields = [heap |-> DeclaredHeap,
                 blueprint |-> DeclaredBlueprint,
                 own |-> [count |-> Absent, users |-> Absent, tags |-> DeclaredBlueprint.tags],
                 ops |-> 0,
                 last |-> "none"]
    /\ bus = NoBus

FieldFrame ==
    UNCHANGED <<cvars, inv, rvars, flights, signals, declared, registry, extended, bus>>

\* instance.count = n
AssignNumber(n) ==
    /\ fields.ops < MaxFieldOps
    /\ fields' = [fields EXCEPT !.own.count = Num(n), !.ops = @ + 1, !.last = "assign"]
    /\ FieldFrame

\* instance[key] = an array of n elements the caller has made
AssignArray(key, n) ==
    /\ fields.ops < MaxFieldOps
    /\ fields' = [fields EXCEPT !.heap = Append(@, n),
                                !.own[key] = Ref(Len(fields.heap) + 1),
                                !.ops = @ + 1,
                                !.last = "assign"]
    /\ FieldFrame

\* instance[key].push(x): the array the instance reads grows in place
PushField(key) ==
    /\ fields.ops < MaxFieldOps
    /\ fields' = [fields EXCEPT !.heap[ReadField(fields, key).v] = @ + 1,
                                !.ops = @ + 1,
                                !.last = "push"]
    /\ FieldFrame

\* instance.reset()
ResetFields ==
    /\ fields.ops < MaxFieldOps
    /\ fields' = [ResetFrom(fields, 1) EXCEPT !.ops = @ + 1, !.last = "reset"]
    /\ FieldFrame

NextFields ==
    \/ \E n \in {0, 1} : AssignNumber(n)
    \/ \E key \in {"users", "tags"}, n \in {0, 1} : AssignArray(key, n)
    \/ \E key \in {"users", "tags"} : PushField(key)
    \/ ResetFields

SpecFields == InitFields /\ [][NextFields]_vars

\* two values are equal: the same number, or arrays of the same content
EqualValues(heapA, a, heapB, b) ==
    /\ a.kind = b.kind
    /\ a.kind = "num" => a.v = b.v
    /\ a.kind = "ref" => heapA[a.v] = heapB[b.v]

\* C25: when instance.reset() has returned, every field of the blueprint reads
\* on the instance as a value equal to its blueprint default, and the blueprint
\* defaults are the values given at declaration, whatever assignments and
\* in-place changes of field values came before.
C25_ResetRestoresDefaults ==
    fields.last = "reset" =>
        \A i \in 1..Len(FieldNames) :
            LET key == FieldNames[i]
            IN /\ EqualValues(fields.heap, ReadField(fields, key),
                              fields.heap, fields.blueprint[key])
               /\ EqualValues(fields.heap, fields.blueprint[key],
                              DeclaredHeap, DeclaredBlueprint[key])

\* ---------------------------------------------------------------------
\* container.reset(filter) and container.destroy(filter)
\* ---------------------------------------------------------------------

\* the filters of the batch calls: none, or one that accepts a set of instances
Filters ==
    {NoFilter} \cup {[given |-> TRUE, accepts |-> S] : S \in SUBSET (1..MaxInst)}

\* filter && !filter(obj.class, obj.instance) is false
Matches(filter, e) == ~ filter.given \/ e.instance \in filter.accepts

\* the entries services.forEach passes on to reset() or destroy()
Matching(svcs, filter) == SelectSeq(svcs, LAMBDA e : Matches(filter, e))

\* container.reset(filter): reset() of every matching entry, in table order
ContainerReset(filter) ==
    LET targets == Matching(services, filter)
    IN /\ inv' = [NoInvoke EXCEPT
                    !.op = "reset",
                    !.filter = filter,
                    !.snapshot = services,
                    !.log = [k \in 1..Len(targets) |->
                                InvokeEvent("reset", targets[k].instance)],
                    !.status = "resolved"]
       /\ ret' = NoRet
       /\ UNCHANGED <<PluginArray, pluginArray, pluginSet, pluginCounter, services,
                      instances, hookLog, destroyLog, destroyAt, tasks, lastGot>>
       /\ UNCHANGED <<rvars, evars>>

\* instance.destroy() of instance x up to its first await, on the tables T
DestroyCall(T, x) ==
    LET j == PrevOnDestroy(pluginArray, pluginCounter)
        key == instances[x].key
    IN [T EXCEPT
          !.destroyAt[x] = pluginCounter,
          !.lastGot[key] = IF @ = x THEN 0 ELSE @,
          !.services = IF j = 0 THEN ServiceDelete(@, key) ELSE @,
          !.tasks = IF j = 0 THEN @ ELSE @ \cup {[op |-> "destroy", inst |-> x, i |-> j]},
          !.destroyLog[x] = IF j = 0 THEN @ ELSE << [e |-> "ds", i |-> j] >>]

\* the calls of destroy() for the entries targets[k..], one after the other
RECURSIVE DestroyEach(_, _, _)
DestroyEach(T, targets, k) ==
    IF k > Len(targets) THEN T
    ELSE DestroyEach(DestroyCall(T, targets[k].instance), targets, k + 1)

\* container.destroy(filter): destroy() of every matching entry, not awaited.
\* No destroy() of a matching instance is under way when it is called.
ContainerDestroy(filter) ==
    LET targets == Matching(services, filter)
        T == DestroyEach([services |-> services, destroyAt |-> destroyAt,
                          lastGot |-> lastGot, tasks |-> tasks,
                          destroyLog |-> destroyLog], targets, 1)
    IN /\ \A k \in 1..Len(targets) : destroyAt[targets[k].instance] = -1
       /\ inv' = [NoInvoke EXCEPT
                    !.op = "destroy",
                    !.filter = filter,
                    !.snapshot = services,
                    !.log = [k \in 1..Len(targets) |->
                                InvokeEvent("destroy", targets[k].instance)],
                    !.status = "resolved"]
       /\ services' = T.services
       /\ destroyAt' = T.destroyAt
       /\ lastGot' = T.lastGot
       /\ tasks' = T.tasks
       /\ destroyLog' = T.destroyLog
       /\ ret' = NoRet
       /\ UNCHANGED <<PluginArray, pluginArray, pluginSet, pluginCounter, instances,
                      hookLog>>
       /\ UNCHANGED <<rvars, evars>>

NextBatch ==
    \/ \E id \in Identifiers, s \in Scopes : GetByClass(id, s)
    \/ \E id \in Identifiers, s \in Scopes : ResolveByClass(id, s)
    \/ \E t \in tasks : ResolveResume(t)
    \/ \E filter \in Filters : ContainerReset(filter)
    \/ \E filter \in Filters : ContainerDestroy(filter)
    \/ \E t \in tasks : DestroyResume(t)

SpecBatch == InitContainer /\ [][NextBatch]_vars

\* how often the batch call whose record is r applied its operation to instance x
Applied(r, x) == Cardinality({k \in 1..Len(r.log) : r.log[k].inst = x})

\* instance x has been handed to its caller and no destroy() of it has ended
InUse(x) ==
    /\ ~ DestroyDone(x)
    /\ ~ \E t \in tasks : t.op = "resolve" /\ t.inst = x

\* C26: container.reset(filter) and container.destroy(filter) apply reset,
\* respectively destroy, exactly once to every live instance the filter accepts
\* (to every live instance when no filter is given) and to no other instance,
\* and an instance the filter rejects keeps its table entry and is not destroyed.
C26_BatchAppliesToMatchingInstances ==
    [][(inv' # inv /\ inv'.op \in {"reset", "destroy"}) =>
          \A x \in 1..Len(instances) :
              /\ Applied(inv', x) =
                    IF InUse(x) /\ Matches(inv'.filter, [instance |-> x]) THEN 1 ELSE 0
              /\ ~ Matches(inv'.filter, [instance |-> x]) =>
                    /\ destroyAt'[x] = destroyAt[x]
                    /\ InTable(services', x) = InTable(services, x)]_vars

\* ---------------------------------------------------------------------
\* EventBus and UnaryBus
\* ---------------------------------------------------------------------

\* calls of subscribe and of dispatch the model follows
MaxListeners == 3
MaxDispatches == 2

\* the event types of the keyed bus, and the name the one list of a unary bus
\* goes by in the model
BusTypes == {"a", "b"}
Unary == "unary"
Buckets == BusTypes \cup {Unary}

\* no dispatch has been made
NoRun == [bucket |-> "", calls |-> <<>>, pending |-> {}, resolved |-> {}, thrown |-> 0,
          status |-> "none"]

\* subscribe(type, listener) and subscribe(listener): listeners.push(listener).
\* A listener is named by the number of the subscribe call that passed it.
Subscribed(listeners, id) == Append(listeners, id)

\* the function subscribe returns: it builds Promise.resolve(() => {...splice...}),
\* a promise resolved with a function nobody calls, and the list stays as it is
Unsubscribed(listeners, id) == listeners

\* listeners.map(listener => Promise.resolve(listener(message))): the listeners
\* called; a listener that throws (the throwAt-th, 0: none) ends the map
MapListeners(listeners, throwAt) ==
    IF throwAt = 0 THEN listeners ELSE SubSeq(listeners, 1, throwAt)

InitBus ==
    /\ PluginArray = InitialPluginArray
    /\ pluginArray = InitialPluginArray
    /\ pluginSet = PluginSetAfter([f \in Factories |-> 0], <<>>, InitialPluginArray)
    /\ pluginCounter = Len(InitialPluginArray)
    /\ services = <<>>
    /\ instances = <<>>
    /\ hookLog = <<>>
    /\ destroyLog = <<>>
    /\ destroyAt = <<>>
    /\ tasks = {}
    /\ lastGot = [k \in Keys |-> 0]
    /\ ret = NoRet
    /\ inv = NoInvoke
    /\ decls = <<>>
    /\ slots = NoSlots
    /\ meth = <<>>
    /\ since = NoSince
    /\ flights = <<>>
    /\ signals = NoSignals
    /\ declared = <<"A">>
    /\ registry = NoRegistry
    /\ extended = <<>>
    /\ fields = NoFields
    /\ bus = [listeners |-> [b \in Buckets |-> <<>>],
              subscribed |-> 0,
              cancelled |-> {},
              dispatches |-> 0,
              run |-> NoRun]

BusFrame ==
    UNCHANGED <<cvars, inv, rvars, flights, signals, declared, registry, extended, fields>>

\* eventBus.subscribe(type, listener), or subscribe(listener) of a unary bus
Subscribe(bucket) ==
    /\ bus.subscribed < MaxListeners
    /\ bus' = [bus EXCEPT !.listeners[bucket] = Subscribed(@, bus.subscribed + 1),
                          !.subscribed = @ + 1]
    /\ BusFrame

\* the function the id-th subscribe call returned is called
Unsubscribe(id) ==
    /\ id \in 1..bus.subscribed
    /\ id \notin bus.cancelled
    /\ bus' = [bus EXCEPT !.listeners = [b \in Buckets |-> Unsubscribed(@[b], id)],
                          !.cancelled = @ \cup {id}]
    /\ BusFrame

\* dispatch(type, message) or dispatch(message), up to the await of Promise.all.
\* A listener hands back a promise that settles later, or throws at once.
Dispatch(bucket, throwAt) ==
    LET listeners == bus.listeners[bucket]
        calls == MapListeners(listeners, throwAt)
    IN /\ bus.dispatches < MaxDispatches
       /\ bus.run.status # "running"
       /\ throwAt <= Len(listeners)
       /\ bus' = [bus EXCEPT
                    !.dispatches = @ + 1,
                    !.run = [bucket |-> bucket,
                             calls |-> calls,
                             pending |-> {calls[k] : k \in 1..Len(calls)}
                                            \ (IF throwAt = 0 THEN {} ELSE {calls[throwAt]}),
                             resolved |-> {},
                             thrown |-> IF throwAt = 0 THEN 0 ELSE calls[throwAt],
                             status |-> IF throwAt # 0 THEN "rejected"
                                        ELSE IF calls = <<>> THEN "resolved"
                                        ELSE "running"]]
       /\ BusFrame

\* the promise of one listener settles
SettleListener(id, out) ==
    /\ id \in bus.run.pending
    /\ bus' = [bus EXCEPT
                 !.run.pending = @ \ {id},
                 !.run.resolved = IF out = "resolve" THEN @ \cup {id} ELSE @,
                 !.run.status = IF @ # "running" THEN @
                                ELSE IF out = "reject" THEN "rejected"
                                ELSE IF bus.run.pending = {id} THEN "resolved"
                                ELSE "running"]
    /\ BusFrame

NextBus ==
    \/ \E bucket \in Buckets : Subscribe(bucket)
    \/ \E id \in 1..MaxListeners : Unsubscribe(id)
    \/ \E bucket \in Buckets, throwAt \in 0..MaxListeners : Dispatch(bucket, throwAt)
    \/ \E id \in 1..MaxListeners, out \in SettleOutcomes : SettleListener(id, out)

SpecBus == InitBus /\ [][NextBus]_vars

\* the step is a call of dispatch
Dispatches == bus'.dispatches = bus.dispatches + 1

\* listener id is among the listeners seq names
Holds(seq, id) == \E k \in 1..Len(seq) : seq[k] = id

\* C28: once the function its subscribe call returned has been called, a
\* listener is invoked by no later dispatch, of the keyed bus and of a unary
\* bus alike, and the other listeners of the list are still invoked.
C28_UnsubscribedListenerNotInvoked ==
    [][Dispatches =>
          /\ \A id \in bus.cancelled : ~ Holds(bus'.run.calls, id)
          /\ \A id \in 1..bus.subscribed :
                (/\ bus.cancelled # {}
                 /\ id \notin bus.cancelled
                 /\ Holds(bus.listeners[bus'.run.bucket], id)) =>
                    Holds(bus'.run.calls, id)]_vars

\* C29: dispatch invokes the listeners subscribed to the type, each once and
\* in the order of their subscribe calls, and no listener of another type, all
\* of them before it awaits any, and its promise resolves only when the promise
\* of every listener has resolved.
C29_DispatchInvokesEveryListener ==
    /\ [][Dispatches => bus'.run.calls = bus.listeners[bus'.run.bucket]]_vars
    /\ [](bus.run.status = "resolved" =>
            bus.run.resolved = {bus.run.calls[k] : k \in 1..Len(bus.run.calls)})

\* ---------------------------------------------------------------------
\* retry without a limit of attempts: shots = 0
\* ---------------------------------------------------------------------

\* how often the wrapped function of a method is invoked at most
MaxAttempts == 3

\* retry(func(...), { shots: 0, interval: 100 })
UnlimitedRetry == [RetryDecl EXCEPT !.shots = 0]

\* the classes with retry-wrapped methods that have no limit
UnlimitedClasses ==
    { <<UnlimitedRetry>>,
      <<UnlimitedRetry, [UnlimitedRetry EXCEPT !.curve = "log", !.max = 300]>> }

\* what the promise of the n-th invocation of the wrapped function resolves with
AttemptResult(n) == <<"result", n>>

\* the value of a function call that returns nothing
Undefined == <<"undefined">>

\* what the promise of replacementFunction is fulfilled with once the promise
\* it awaits is fulfilled with `result`: the async function has no return
WrapperResult(result) == Undefined

\* the promise of the attempt in flight settles; ret is what the caller of the
\* wrapper sees: the attempt's result and the value of the caller's promise
SettleAttempt(m, out) ==
    LET S == IF out = "ok"
             THEN RetryThen([slots |-> slots, meth |-> meth], decls, m)
             ELSE RetryCatch([slots |-> slots, meth |-> meth], decls, m)
        n == Invocations(meth[m].log)
    IN /\ decls[m].kind = "retry"
       /\ meth[m].inflight > 0
       /\ slots' = S.slots
       /\ meth' = S.meth
       /\ ret' = IF out = "ok"
                 THEN [op |-> "fulfilled", inst |-> 1, prev |-> m, made |-> TRUE,
                       arg |-> <<AttemptResult(n), WrapperResult(AttemptResult(n))>>]
                 ELSE IF S.meth[m].timer = 0
                 THEN [op |-> "rejected", inst |-> 1, prev |-> m, made |-> TRUE,
                       arg |-> <<>>]
                 ELSE NoRet
       /\ UNCHANGED <<tvars, evars, inv, decls, since>>

InitUnlimited == InitWrapped(UnlimitedClasses)

NextUnlimited ==
    \/ \E m \in 1..Len(decls) : CallRetry(m)
    \/ \E m \in 1..Len(decls), out \in AttemptOutcomes : SettleAttempt(m, out)
    \/ \E m \in 1..Len(decls) : Invocations(meth[m].log) < MaxAttempts /\ FireRetry(m)
    \/ Destroy(1)
    \/ \E t \in tasks : DestroyResume(t)

SpecUnlimited == InitUnlimited /\ [][NextUnlimited]_vars

\* C31: with shots = 0 the caller's promise of a retry-wrapped method never
\* rejects, and when an attempt succeeds on an instance that is not destroyed
\* the caller's promise is fulfilled with that attempt's result and the
\* running flag is cleared.
C31_UnlimitedRetryResolves ==
    /\ ret.op # "rejected"
    /\ \A m \in 1..Len(decls) :
          \A k \in 1..Len(meth[m].log) : meth[m].log[k].e # "reject"
    /\ (ret.op = "fulfilled" /\ destroyAt[1] = -1) =>
          /\ ~ meth[ret.prev].running
          /\ ret.arg[2] = ret.arg[1]

\* ---------------------------------------------------------------------
\* invokeLinear over services that are created lazily
\* ---------------------------------------------------------------------

\* the definitions declared after the container was constructed and the scopes
\* they are fetched in: C and E have the order 0, B has -1000
LazyScoped == {<<"B", "">>, <<"C", "">>, <<"E", "">>, <<"C", "x">>}

\* index: counter++ of Service(): the definitions are declared as A, B, C, D, E
DeclaredIndex(c) ==
    CASE c = "A" -> 0
      [] c = "B" -> 1
      [] c = "C" -> 2
      [] c = "D" -> 3
      [] OTHER -> 4

\* the container is constructed before the definitions are declared: its
\* table is empty; `arrays` are the plugin lists extendPlugins may have made
\* by then, `scoped` the definitions and scopes fetched later
InitEmptyTable(arrays, scoped) ==
    /\ PluginArray \in arrays
    /\ pluginArray = PluginArray
    /\ pluginSet = PluginSetAfter([f \in Factories |-> 0], <<>>, PluginArray)
    /\ pluginCounter = Len(PluginArray)
    /\ services = <<>>
    /\ instances = <<>>
    /\ hookLog = <<>>
    /\ destroyLog = <<>>
    /\ destroyAt = <<>>
    /\ tasks = {}
    /\ lastGot = [k \in {Key(p[1], p[2]) : p \in scoped} |-> 0]
    /\ ret = NoRet
    /\ inv = NoInvoke
    /\ decls = <<>>
    /\ slots = NoSlots
    /\ meth = <<>>
    /\ since = NoSince
    /\ flights = <<>>
    /\ signals = NoSignals
    /\ declared = <<"A">>
    /\ registry = NoRegistry
    /\ extended = <<>>
    /\ fields = NoFields
    /\ bus = NoBus

InitLazy == InitEmptyTable({InitialPluginArray}, LazyScoped)

NextLazy ==
    \/ \E p \in LazyScoped : GetByClass(p[1], p[2])
    \/ \E x \in 1..Len(instances) : Destroy(x)
    \/ \E t \in tasks : DestroyResume(t)
    \/ \E call \in CallOutcomes : InvokeLinear(call)
    \/ \E out \in SettleOutcomes, call \in CallOutcomes : LinearResume(out, call)

SpecLazy == InitLazy /\ [][NextLazy]_vars

\* C32: among instances whose definitions have the same order value,
\* invokeLinear invokes the method in the order in which the definitions were
\* declared, whatever the order in which the instances were created.
C32_EqualOrdersInDeclarationOrder ==
    inv.op = "linear" =>
        \A k, l \in Starts :
            (/\ k < l
             /\ DeclaredOrder(instances[inv.log[k].inst].class)
                  = DeclaredOrder(instances[inv.log[l].inst].class)) =>
                DeclaredIndex(instances[inv.log[k].inst].class)
                    <= DeclaredIndex(instances[inv.log[l].inst].class)

\* ---------------------------------------------------------------------
\* Two wrapped methods of one kind on one instance
\* ---------------------------------------------------------------------

\* the step is a call of the wrapper of method m
CallOf(m) == meth'[m].calls = meth[m].calls + 1

\* the step runs the onDestroy of the plugin of a kind: timers.splice(0)
Spliced(kind) == slots[kind] # <<>> /\ slots'[kind] = <<>>

\* C33: a call of one debounce-wrapped or retry-wrapped method leaves the
\* pending timer of every other wrapped method of the instance pending and
\* tracked in the timers array, and the onDestroy of the plugin cancels the
\* pending timers of all its methods.
C33_PendingStatePerMethod ==
    /\ [][\A m, o \in 1..Len(decls) :
            (/\ m # o
             /\ decls[m].kind \in {"debounce", "retry"}
             /\ CallOf(m)
             /\ meth[o].timer # 0) =>
                /\ meth'[o].timer = meth[o].timer
                /\ \E k \in 1..Len(slots'[decls[o].kind]) : slots'[decls[o].kind][k] = o]_vars
    /\ [][\A o \in 1..Len(decls) :
            (decls[o].kind \in {"debounce", "retry"} /\ Spliced(decls[o].kind)) =>
                meth'[o].timer = 0]_vars

\* ---------------------------------------------------------------------
\* Reads of a signal field
\* ---------------------------------------------------------------------

\* the writes among the first n that are to field f of instance x
WritesTo(x, f, n) ==
    {w \in 1..n : signals.writes[w].instance = x /\ signals.writes[w].propertyName = f}

\* the value of the most recent of the first n writes to field f of instance x,
\* the seeded value when there is none
LatestValue(x, f, n) ==
    IF WritesTo(x, f, n) = {} THEN Blueprint[f]
    ELSE signals.writes[CHOOSE w \in WritesTo(x, f, n) :
                            \A u \in WritesTo(x, f, n) : u <= w].value

\* C34: the setter of an intercepted field writes the vault before it notifies
\* a listener and dispatches on the container channel before the channel of
\* the instance: a listener that reads the field while it handles the event
\* gets the value of the most recent write, never the value held before the
\* write of the event, and a read of the field returns the value of the most
\* recent write, or the seeded value, also after a write with isSimilar.
C34_ReadsSeeLatestWrite ==
    /\ \A x \in DOMAIN signals.vault : \A f \in SignalFields :
          FieldGet(signals, x, f) = LatestValue(x, f, Len(signals.writes))
    /\ \A i \in 1..Len(signals.reads) :
          LET r == signals.reads[i]
              w == signals.writes[r.write]
          IN /\ r.after >= r.write
             /\ r.seen = LatestValue(w.instance, w.propertyName, r.after)
             /\ r.channel = "container" => r.after = r.write /\ r.seen = w.value
             /\ r.channel = "instance" =>
                   \E j \in 1..(i - 1) : /\ signals.reads[j].write = r.write
                                         /\ signals.reads[j].channel = "container"
    /\ \A w \in 1..Len(signals.writes) :
          \A c \in {"container", "instance"} :
              \E i \in 1..Len(signals.reads) :
                  signals.reads[i].write = w /\ signals.reads[i].channel = c

\* count of instance 1 holds 1 and is written 2 and then 2 again: the second
\* write is similar, and the listeners of both channels have read 2 both times
C34_Witness ==
    /\ Len(signals.writes) = 2
    /\ signals.writes[1] = [instance |-> 1, propertyName |-> "count", value |-> 2, held |-> 1]
    /\ signals.writes[2] = [instance |-> 1, propertyName |-> "count", value |-> 2, held |-> 2]
    /\ signals.container[2].isSimilar
    /\ Len(signals.reads) = 4
    /\ \A i \in 1..4 : signals.reads[i].seen = 2
    /\ signals.reads[1].channel = "container" /\ signals.reads[2].channel = "instance"
    /\ FieldGet(signals, 1, "count") = 2

\* ---------------------------------------------------------------------
\* Container(): the constructor over the global registries
\* ---------------------------------------------------------------------

\* const services = new Map(); const pluginSet = new Map(); let pluginCounter = 0;
\* `trace` lists what the constructor makes, in the order it makes it
NoContainer ==
    [pluginArray |-> <<>>, pluginSet |-> [f \in Factories |-> 0], pluginCounter |-> 0,
     services |-> <<>>, instances |-> <<>>, hookLog |-> <<>>, trace |-> <<>>]

\* addPlugin(plugin): plugin(self) is called and stored at pluginCounter++
AddPlugin(C, f) ==
    [C EXCEPT !.pluginArray = Append(@, f),
              !.pluginSet[f] = C.pluginCounter + 1,
              !.pluginCounter = @ + 1,
              !.trace = Append(@, [e |-> "plugin", name |-> f])]

\* added.forEach((plugin) => addPlugin(plugin)) from position k on
RECURSIVE AddPlugins(_, _, _)
AddPlugins(C, added, k) ==
    IF k > Len(added) THEN C ELSE AddPlugins(AddPlugin(C, added[k]), added, k + 1)

\* getByClass(item) of the constructor: makeService with its call of
\* autoRegisterNewPlugins, onCreate of every plugin, services.set
ConstructService(C, PA, id) ==
    IF ServiceIndex(C.services, Key(id, "")) # 0 THEN C
    ELSE LET C1 == AddPlugins(C, AutoRegistered(PA, C.pluginCounter), 1)
             x == Len(C.instances) + 1
         IN [C1 EXCEPT !.instances = Append(@, [key |-> Key(id, ""), class |-> id,
                                                via |-> "get"]),
                       !.hookLog = Append(@, CreateAll(C1.pluginArray, 1)),
                       !.services = ServiceSet(@, Key(id, ""), id, x),
                       !.trace = Append(@, [e |-> "service", name |-> id])]

\* ServiceRegistry.forEach((item) => getByClass(item)) from position n on
RECURSIVE ConstructServices(_, _, _, _)
ConstructServices(C, PA, defs, n) ==
    IF n > Len(defs) THEN C
    ELSE ConstructServices(ConstructService(C, PA, defs[n].identifier), PA, defs, n + 1)

\* Container(): every factory of PluginArray is added, then every definition
\* of ServiceRegistry is fetched
Constructed(PA, defs) ==
    ConstructServices(AddPlugins(NoContainer, PA, 1), PA, defs, 1)

\* a call of Service() before the container is constructed
DeclareEarly(chars) ==
    /\ ret.op # "container"
    /\ Declare(chars, 0, [count |-> 1])

\* a call of extendPlugins before the container is constructed
ExtendEarly(f) ==
    /\ ret.op # "container"
    /\ ExtendPluginsCall(f)

\* const container = Container()
Construct ==
    LET C == Constructed(PluginArray, registry.defs)
    IN /\ ret.op # "container"
       /\ pluginArray' = C.pluginArray
       /\ pluginSet' = C.pluginSet
       /\ pluginCounter' = C.pluginCounter
       /\ services' = C.services
       /\ instances' = C.instances
       /\ hookLog' = C.hookLog
       /\ destroyLog' = [x \in 1..Len(C.instances) |-> <<>>]
       /\ destroyAt' = [x \in 1..Len(C.instances) |-> -1]
       /\ ret' = [op |-> "container", inst |-> 0, prev |-> 0, made |-> TRUE,
                  arg |-> C.trace]
       /\ UNCHANGED <<PluginArray, tasks, lastGot, ovars>>

NextConstruct ==
    \/ \E chars \in DeclarationIdentifiers : DeclareEarly(chars)
    \/ \E f \in Factories : ExtendEarly(f)
    \/ Construct

SpecConstruct == InitPlugins /\ [][NextConstruct]_vars

\* positions of the constructor's trace where it made something of a kind
Made(e) == {k \in 1..Len(ret.arg) : ret.arg[k].e = e}

\* C35: when Container() returns, every plugin factory registered at that
\* moment has been instantiated exactly once, in registration order and before
\* any service instance was created, and every definition registered at that
\* moment has a live unscoped instance for which the onCreate of every plugin
\* has been started.
C35_ConstructorInstantiatesAll ==
    ret.op = "container" =>
        /\ \A i \in 1..Len(PluginArray) :
              Cardinality({k \in Made("plugin") : ret.arg[k].name = PluginArray[i]}) = 1
        /\ \A a, b \in 1..Len(PluginArray) :
              a < b => \E k, l \in Made("plugin") :
                          /\ k < l
                          /\ ret.arg[k].name = PluginArray[a]
                          /\ ret.arg[l].name = PluginArray[b]
        /\ \A k \in Made("plugin"), l \in Made("service") : k < l
        /\ \A k \in Made("plugin") : \E i \in 1..Len(PluginArray) :
              ret.arg[k].name = PluginArray[i]
        /\ \A d \in 1..Len(registry.defs) :
              \E n \in 1..Len(services) :
                  /\ services[n].key = registry.defs[d].identifier
                  /\ services[n].class = registry.defs[d].identifier
                  /\ destroyAt[services[n].instance] = -1
                  /\ \A i \in 1..pluginCounter :
                        HasOnCreate(pluginArray[i]) =>
                            CreateStarted(services[n].instance, i)
                  /\ \A i \in 1..Len(PluginArray) :
                        \E j \in 1..pluginCounter : pluginArray[j] = PluginArray[i]

\* two factories and two definitions were registered, one factory twice, and
\* the container was constructed
C35_Witness ==
    /\ ret.op = "container"
    /\ extended = <<"TagsPlugin", "BootstrapPlugin", "TagsPlugin">>
    /\ Len(registry.defs) = 2
    /\ Len(services) = 2
    /\ Len(ret.arg) = 4
    /\ hookLog[2] = CreateAll(<<"TagsPlugin", "BootstrapPlugin">>, 1)

\* ---------------------------------------------------------------------
\* Scoped instances of several definitions
\* ---------------------------------------------------------------------

\* options.identifier of two declarations; the pattern removes the first
\* underscore of the second one only
ScopedDeclarations == { <<"A">>, <<"A", "_", "_", "x">> }

\* the definitions and the scopes they are fetched in; "" is no scope
ScopedPairs == {<<Join(Sanitize(d)), s>> : d \in ScopedDeclarations, s \in Scopes}

InitScoped == InitEmptyTable({InitialPluginArray}, ScopedPairs)

NextScoped ==
    \/ \E p \in ScopedPairs : GetByClass(p[1], p[2])
    \/ \E x \in 1..Len(instances) : Destroy(x)
    \/ \E t \in tasks : DestroyResume(t)

SpecScoped == InitScoped /\ [][NextScoped]_vars

\* C36: different pairs of a definition and a scope have different table keys
\* and never share an instance: the instance getByClass returns for a pair
\* was made for that definition, and a destroy removes the table entry of the
\* destroyed instance's own pair only.
C36_PairsNeverShareInstance ==
    /\ [](\A p, q \in ScopedPairs :
            (p # q /\ ServiceIndex(services, Key(p[1], p[2])) # 0) =>
                Key(p[1], p[2]) # Key(q[1], q[2]))
    /\ [](ret.op = "get" => instances[ret.inst].class = ret.arg[1])
    /\ [][\A n \in 1..Len(services) :
            (\A m \in 1..Len(services') : services'[m].key # services[n].key) =>
                \E x \in 1..Len(instances) :
                    /\ destroyAt[x] >= 0
                    /\ instances[x].key = services[n].key
                    /\ instances[x].class = services[n].class]_vars

\* ---------------------------------------------------------------------
\* Cycles of a timer-wrapped method
\* ---------------------------------------------------------------------

\* C37: a timer-wrapped method has at most one tick pending: a pending tick
\* belongs to a running cycle, a call of the wrapper while the cycle is
\* running invokes nothing and leaves the pending tick as it is, and a call
\* after the cycle has ended invokes the function with (elapsed 0, count 0)
\* and schedules the first tick of a new cycle unless that call ends it.
C37_OneCyclePerTimer ==
    /\ [](\A m \in 1..Len(decls) :
            decls[m].kind = "timer" => (meth[m].timer # 0 => meth[m].running))
    /\ [][\A m \in 1..Len(decls) :
            (decls[m].kind = "timer" /\ CallOf(m)) =>
                IF meth[m].running
                THEN meth'[m] = [meth[m] EXCEPT !.calls = @ + 1,
                                                !.log = Append(@, Ev("drop", 0, 0))]
                ELSE /\ meth[m].timer = 0
                     /\ meth'[m].log = meth[m].log \o <<Ev("call", 0, 0), Ev("invoke", 0, 0)>>
                     /\ meth'[m].running = (meth'[m].timer # 0)
                     /\ meth'[m].timer # 0 =>
                           /\ meth'[m].tick = 1
                           /\ meth'[m].elapsed = decls[m].interval]_vars

\* a timer with two shots that started by itself: a call during the cycle was
\* dropped, the second shot ended the cycle, and the next call started a new one
C37_Witness ==
    \E m \in 1..Len(decls) :
        /\ decls[m] = TimerDecl(2, FALSE)
        /\ meth[m].log = <<Ev("invoke", 0, 0), Ev("drop", 0, 0), Ev("invoke", 1, 1000),
                           Ev("call", 0, 0), Ev("invoke", 0, 0)>>
        /\ meth[m].running
        /\ meth[m].timer = 1000
        /\ destroyAt[1] = -1

\* ---------------------------------------------------------------------
\* An attempt in flight when the instance is destroyed
\* ---------------------------------------------------------------------

\* the step settles an attempt of method m
SettlesAttempt(m) == meth'[m].inflight = meth[m].inflight - 1

\* C38: when destroy() of the instance has completed while an attempt of a
\* retry-wrapped method was in flight, and no wrapped method is called anew,
\* the rejection of that attempt schedules no retry: no timer of the method
\* is pending after it, and the function is not invoked again.
C38_NoRetryAfterDestroy ==
    /\ [][\A m \in 1..Len(decls) :
            (/\ decls[m].kind = "retry"
             /\ DestroyDone(1)
             /\ ~ since.anew
             /\ SettlesAttempt(m)) => meth'[m].timer = 0]_vars
    /\ [][\A m \in 1..Len(decls) :
            (/\ decls[m].kind = "retry"
             /\ DestroyDone(1)
             /\ ~ since.anew) =>
                Invocations(meth'[m].log) = Invocations(meth[m].log)]_vars

\* ---------------------------------------------------------------------
\* invokeLinear when a call fails
\* ---------------------------------------------------------------------

\* positions of the log where a call threw or its promise was rejected
Failures == {k \in 1..Len(inv.log) : inv.log[k].e \in {"throw", "reject"}}

\* C39: when the method rejects or throws on one instance, invokeLinear is
\* rejected by that failure, the method is invoked on no instance later in
\* the order, and every instance earlier in the order that defines the method
\* has been invoked exactly once.
C39_LinearStopsAtFailure ==
    inv.op = "linear" =>
        \A k \in Failures :
            /\ inv.status = "rejected"
            /\ k = Len(inv.log)
            /\ inv.log[k].inst = inv.snapshot[inv.pos].instance
            /\ \A j \in 1..Len(inv.snapshot) :
                  Cardinality({s \in Starts : inv.log[s].inst = inv.snapshot[j].instance})
                      = IF j <= inv.pos /\ DefinesM(inv.snapshot[j].class) THEN 1 ELSE 0

\* B (order -1000) has resolved, the call on C (order 0) has thrown, and A
\* (order 5) was not called
C39_Witness ==
    /\ inv.op = "linear"
    /\ inv.status = "rejected"
    /\ Len(services) = 3
    /\ services[1].class = "A" /\ services[2].class = "B" /\ services[3].class = "C"
    /\ inv.log = <<InvokeEvent("start", 2), InvokeEvent("resolve", 2),
                   InvokeEvent("start", 3), InvokeEvent("throw", 3)>>

\* ---------------------------------------------------------------------
\* Factories registered after the container was constructed
\* ---------------------------------------------------------------------

\* the plugin lists at construction: none, one or two factories
EarlyPluginArrays ==
    {SubSeq(InitialPluginArray, 1, n) : n \in 0..(Len(InitialPluginArray) - 1)}

\* the factories registered after the construction, with extendPlugins or
\* with registerPlugin
LateFactories == {"SignalPlugin", "RetryPlugin"}

\* the definition fetched after the registrations and its scopes
LateScoped == {<<id, s>> : id \in Identifiers, s \in Scopes}

InitLate == InitEmptyTable(EarlyPluginArrays, LateScoped)

NextLate ==
    \/ \E f \in LateFactories : ExtendPlugins(f)
    \/ \E f \in LateFactories : RegisterPlugin(f)
    \/ \E p \in LateScoped : GetByClass(p[1], p[2])

SpecLate == InitLate /\ [][NextLate]_vars

\* the position in the hook log of instance x where the onCreate of plugin
\* object i starts, 0 when it does not
CreateStartAt(x, i) ==
    IF CreateStarted(x, i)
    THEN CHOOSE k \in 1..Len(hookLog[x]) : hookLog[x][k].e = "cs" /\ hookLog[x][k].i = i
    ELSE 0

\* C40: when getByClass creates an instance, every factory extendPlugins has
\* registered, also after the construction of the container and whatever
\* number of plugins the container had and of registerPlugin calls came in
\* between, has a plugin object in the container, and the onCreate of that
\* object has been started for the instance after the onCreate of every plugin
\* object added before it.
C40_LateFactoriesInstantiated ==
    ret.op = "get" =>
        /\ ret.inst # 0
        /\ ret.made =>
              \A k \in 1..Len(PluginArray) :
                  \E i \in 1..pluginCounter :
                      /\ pluginArray[i] = PluginArray[k]
                      /\ HasOnCreate(PluginArray[k]) =>
                            /\ CreateStarted(ret.inst, i)
                            /\ \A j \in 1..(i - 1) :
                                  HasOnCreate(pluginArray[j]) =>
                                      /\ CreateStarted(ret.inst, j)
                                      /\ CreateStartAt(ret.inst, j) < CreateStartAt(ret.inst, i)

====
